---------------------------- MODULE Spec2Model ----------------------------
(***************************************************************************)
(* A model of plantUML_drawio.py: the PlantUML classifier and parsers      *)
(* (PlantUMLParser), the draw.io generator (DrawIOGenerator) and the       *)
(* conversion driver convert_plantuml_to_drawio.                           *)
(*                                                                         *)
(* Text is modelled by TLA+ strings, character by character: the string    *)
(* methods and the regular expressions of the source are operators over    *)
(* strings that compute what Python computes.                              *)
(***************************************************************************)
EXTENDS Integers, Sequences, FiniteSets, TLC

VARIABLES
    pc,            \* where the conversion (or the parse loop) stands
    content,       \* PlantUMLParser.content: the text read from the file
    read,          \* history: the lines a parser fed line by line has read
                   \* that changed its locals, in their order
    lines,         \* PlantUMLParser.lines (line-by-line runs: those consumed)
    diagram_type,  \* PlantUMLParser.diagram_type
    seqp,          \* the locals of _parse_sequence
    clsp,          \* the locals of _parse_class
    ucp,           \* the locals of _parse_usecase
    actp,          \* the locals of _parse_activity
    data,          \* the model returned by parse(), NoData before
    gen,           \* the DrawIOGenerator: its cell_id and elements
    mxfile,        \* the document generate_* returned, NoDoc before
    saved,         \* save_to_file has written the output file
    result,        \* what convert_plantuml_to_drawio returned, NoResult before
    first_doc,     \* the document of an earlier conversion of the same text
    peer           \* the other conversion of a process that runs two, while
                   \* this one runs: its id and its state; NoPeer if none

vars == <<pc, content, lines, read, diagram_type, seqp, clsp, ucp, actp,
          data, gen, mxfile, saved, result, first_doc, peer>>

---------------------------------------------------------------------------
(* Bounds of the model.                                                    *)

\* the lines after the start marker of a text converted as a whole
MaxBody == 3
\* a sequence diagram fed line by line: its messages, its fragments, the
\* sections of one fragment, its declared participants
MaxMessages == 2
MaxFragments == 1
MaxOpened == 2
MaxSections == 2
MaxParticipants == 1
\* an activity diagram fed line by line: its nodes, its decisions, its
\* forks, the branches of one fork
MaxNodes == 4
MaxDecisions == 1
MaxForks == 1
MaxBranches == 2
\* the characters of the text of an activity that runs over several lines
MaxText == 14
\* the nodes of a diagram with such activities
MaxMultiNodes == 3
\* the lines of such a diagram that change the parser's locals
MaxRead == 6
\* the participants and the messages of a sequence diagram whose messages
\* have endpoints that are declared and endpoints that are not
MaxEndParticipants == 2
MaxEndMessages == 3
\* the greatest value of the cell counter of a generator used several
\* times, and the add_* calls made on one document
MaxCellId == 16
MaxAdded == 2
\* the attributes and the methods of a class whose body has a separator
MaxBodyMembers == 2
\* the nodes of a diagram with swim-lanes
MaxLaneNodes == 3
\* a class diagram fed line by line: its classes, the attributes and the
\* methods of one class; the relations of a class or a use-case diagram
MaxClasses == 2
MaxMembers == 1
MaxRelations == 2
\* a use-case diagram fed line by line: its actors, its use cases
MaxActors == 1
MaxUsecases == 2
\* two conversions in one process: the switches from one to the other
MaxSwitches == 7

---------------------------------------------------------------------------
(* Python's None, and the values standing for "not yet".                   *)

None == "__None__"
NoData == [type |-> "none"]
NoDoc == [name |-> "none"]
NoResult == "none"
NoPeer == [id |-> 0]

---------------------------------------------------------------------------
(* Strings.                                                                *)

\* the i-th character of s (from 1), "" outside of s
Ch(s, i) == IF 1 <= i /\ i <= Len(s) THEN SubSeq(s, i, i) ELSE ""

\* s[i:] and s[:i] for i >= 0: a slice stops at the end of the string
From(s, i) == IF i >= Len(s) THEN "" ELSE SubSeq(s, i + 1, Len(s))
Upto(s, i) == IF i >= Len(s) THEN s ELSE SubSeq(s, 1, i)

\* c is one of the characters of the string set
CharIn(c, set) == \E i \in 1..Len(set) : Ch(set, i) = c

\* what str.strip() strips and the \s of a regular expression matches
Whitespace == " \t\r\f"

IsSpace(c) == CharIn(c, Whitespace)

UpperCase == "ABCDEFGHIJKLMNOPQRSTUVWXYZ"
LowerCase == "abcdefghijklmnopqrstuvwxyz"
Digits == "0123456789"

LowerChar(c) ==
    IF CharIn(c, UpperCase)
    THEN Ch(LowerCase, CHOOSE i \in 1..26 : Ch(UpperCase, i) = c)
    ELSE c

\* str.lower()
RECURSIVE Lower(_)
Lower(s) == IF s = "" THEN "" ELSE LowerChar(Ch(s, 1)) \o Lower(Tail(s))

\* sub in s
Contains(s, sub) ==
    \E i \in 1..(Len(s) - Len(sub) + 1) : SubSeq(s, i, i + Len(sub) - 1) = sub

\* str.startswith, str.endswith
StartsWith(s, p) == Len(p) <= Len(s) /\ SubSeq(s, 1, Len(p)) = p
EndsWith(s, p) == Len(p) <= Len(s) /\ SubSeq(s, Len(s) - Len(p) + 1, Len(s)) = p

\* the number of leading (trailing) characters of s that are in chars
RECURSIVE LeadCount(_, _)
LeadCount(s, chars) ==
    IF s # "" /\ CharIn(Ch(s, 1), chars)
    THEN 1 + LeadCount(Tail(s), chars)
    ELSE 0

RECURSIVE TrailCount(_, _)
TrailCount(s, chars) ==
    IF s # "" /\ CharIn(Ch(s, Len(s)), chars)
    THEN 1 + TrailCount(SubSeq(s, 1, Len(s) - 1), chars)
    ELSE 0

\* str.strip(chars) and str.strip()
StripChars(s, chars) ==
    LET a == LeadCount(s, chars)
        t == SubSeq(s, a + 1, Len(s))
    IN  SubSeq(t, 1, Len(t) - TrailCount(t, chars))

Strip(s) == StripChars(s, Whitespace)

\* str.split(sep) for a one-character separator
RECURSIVE Split(_, _)
Split(s, sep) ==
    IF \E i \in 1..Len(s) : Ch(s, i) = sep
    THEN LET i == CHOOSE i \in 1..Len(s) :
                    Ch(s, i) = sep /\ \A j \in 1..(i - 1) : Ch(s, j) # sep
         IN  <<SubSeq(s, 1, i - 1)>> \o Split(SubSeq(s, i + 1, Len(s)), sep)
    ELSE <<s>>

\* sep.join(parts)
RECURSIVE Join(_, _)
Join(parts, sep) ==
    IF parts = <<>> THEN ""
    ELSE IF Len(parts) = 1 THEN parts[1]
    ELSE parts[1] \o sep \o Join(Tail(parts), sep)

\* str.replace(old, new)
RECURSIVE Replace(_, _, _)
Replace(s, old, new) ==
    IF s = "" THEN ""
    ELSE IF StartsWith(s, old) THEN new \o Replace(From(s, Len(old)), old, new)
    ELSE Ch(s, 1) \o Replace(Tail(s), old, new)

\* the elements of a sequence
Range(f) == {f[i] : i \in DOMAIN f}

\* all sequences over S of length at most n
SeqsUpTo(S, n) == UNION {[1..k -> S] : k \in 0..n}

---------------------------------------------------------------------------
(* PlantUMLParser.__init__ and _detect_diagram_type.                       *)

\* any(keyword in s for keyword in kws)
AnyIn(kws, s) == \E k \in kws : Contains(s, k)

\* [line.strip() for line in content.split('\n')]
StrippedLines(text) ==
    LET raw == Split(text, "\n") IN [i \in 1..Len(raw) |-> Strip(raw[i])]

\* a line of the lowered text is 'start' or 'stop' or starts with one of
\* them and a space
StartStopLine(low) ==
    \E i \in 1..Len(low) :
        \/ low[i] \in {"start", "stop"}
        \/ StartsWith(low[i], "start ")
        \/ StartsWith(low[i], "stop ")

\* the tests of the if/elif chain in the order of the source, each with the
\* kind it returns
VocabularyTests(content_lower) ==
    << [kind |-> "usecase", found |-> Contains(content_lower, "usecase")],
       [kind |-> "class",
        found |-> AnyIn({"class ", "interface ", "abstract class", "extends",
                         "implements"}, content_lower)],
       [kind |-> "sequence",
        found |-> \/ Contains(content_lower, "participant")
                  \/ /\ Contains(content_lower, "actor")
                     /\ Contains(content_lower, "->")],
       [kind |-> "activity",
        found |-> StartStopLine(StrippedLines(content_lower))],
       [kind |-> "state", found |-> AnyIn({"state ", "[*]"}, content_lower)],
       [kind |-> "component",
        found |-> AnyIn({"component", "package", "node"}, content_lower)],
       [kind |-> "sequence",
        found |-> AnyIn({"->", "<-", "activate", "deactivate"},
                        content_lower)] >>

\* a chain that returns the kind of the last test that succeeds
RECURSIVE LastFound(_)
LastFound(tests) ==
    IF tests = <<>> THEN "unknown"
    ELSE IF tests[Len(tests)].found THEN tests[Len(tests)].kind
    ELSE LastFound(SubSeq(tests, 1, Len(tests) - 1))

\* if .. elif .. elif ..; return DiagramType.UNKNOWN
RECURSIVE FirstFound(_)
FirstFound(tests) ==
    IF tests = <<>> THEN "unknown"
    ELSE IF Head(tests).found THEN Head(tests).kind
    ELSE FirstFound(Tail(tests))

\* a classifier without the test of the start marker
DetectWithoutMarker(text) == FirstFound(VocabularyTests(Lower(text)))

_detect_diagram_type(text) ==
    IF ~Contains(Lower(text), "@startuml") THEN "unknown"
    ELSE FirstFound(VocabularyTests(Lower(text)))

---------------------------------------------------------------------------
(* Pieces of regular expressions.  A match is a record with ok = TRUE and  *)
(* the groups, or NoMatch.                                                 *)

NoMatch == [ok |-> FALSE]

\* the length of the longest prefix of s without a character of chars
RECURSIVE LeadCountNot(_, _)
LeadCountNot(s, chars) ==
    IF s # "" /\ ~CharIn(Ch(s, 1), chars)
    THEN 1 + LeadCountNot(Tail(s), chars)
    ELSE 0

\* s without its leading whitespace: what is left after a greedy \s*
SkipSpaces(s) == From(s, LeadCount(s, Whitespace))

\* the longest \S+ at the start of s
NonSpaceRun(s) == Upto(s, LeadCountNot(s, Whitespace))

\* the keyword of kws that s starts with, "" if none (no keyword of the
\* alternations of the source is a prefix of another one)
KeywordOf(s, kws) ==
    IF \E k \in kws : StartsWith(s, k)
    THEN CHOOSE k \in kws : StartsWith(s, k)
    ELSE ""

\* (?:"([^"]+)"|(\S+)) at the start of s: the name and what follows it
QuotedOrWord(s) ==
    LET n == LeadCountNot(Tail(s), "\"")
    IN  IF StartsWith(s, "\"") /\ n >= 1 /\ Ch(s, n + 2) = "\""
        THEN [ok |-> TRUE, name |-> SubSeq(s, 2, n + 1), rest |-> From(s, n + 2)]
        ELSE IF NonSpaceRun(s) # ""
        THEN [ok |-> TRUE, name |-> NonSpaceRun(s),
              rest |-> From(s, Len(NonSpaceRun(s)))]
        ELSE NoMatch

\* (?:\s+as\s+(\S+))? at the start of s: the alias, "" when the group is
\* skipped, and what follows
OptionalAs(s) ==
    LET a == SkipSpaces(s)
        b == SkipSpaces(From(a, 2))
    IN  IF /\ a # s
           /\ StartsWith(a, "as")
           /\ b # From(a, 2)
           /\ NonSpaceRun(b) # ""
        THEN [alias |-> NonSpaceRun(b), rest |-> From(b, Len(NonSpaceRun(b)))]
        ELSE [alias |-> "", rest |-> s]

---------------------------------------------------------------------------
(* PlantUMLParser._parse_sequence.                                         *)

ParticipantKeywords ==
    {"participant", "actor", "database", "boundary", "control", "entity",
     "collections"}

\* re.match(r'(participant|actor|...)\s+(?:"([^"]+)"|(\S+))(?:\s+as\s+(\S+))?')
participant_match(line) ==
    LET kw == KeywordOf(line, ParticipantKeywords)
        afterKw == From(line, Len(kw))
        nm == QuotedOrWord(SkipSpaces(afterKw))
    IN  IF kw # "" /\ SkipSpaces(afterKw) # afterKw /\ nm.ok
        THEN [ok |-> TRUE, ptype |-> kw, name |-> nm.name,
              alias |-> OptionalAs(nm.rest).alias]
        ELSE NoMatch

FragmentKeywords == {"alt", "opt", "loop", "par", "break", "critical"}

\* re.match(r'^(alt|opt|loop|par|break|critical)\s+(.*)', line)
fragment_match(line) ==
    LET kw == KeywordOf(line, FragmentKeywords)
        afterKw == From(line, Len(kw))
    IN  IF kw # "" /\ SkipSpaces(afterKw) # afterKw
        THEN [ok |-> TRUE, type |-> kw, label |-> SkipSpaces(afterKw)]
        ELSE NoMatch

\* :?\s*(.*) at the start of s: the label
LabelOf(s) == SkipSpaces(IF StartsWith(s, ":") THEN Tail(s) ELSE s)

\* (\S+)\s*:?\s*(.*) at the start of t, after the arrow
TargetAndLabel(arrow, t, target) ==
    IF target = "" THEN NoMatch
    ELSE [ok |-> TRUE, arrow |-> arrow, target |-> target,
          label |-> LabelOf(SkipSpaces(From(t, Len(target))))]

\* the length of <?-+>>? at the start of s after lt '<' and that many
\* dashes, 0 if it does not match; wide takes the second '>' if there is one
ArrowLength(s, wide, lt, dashes) ==
    IF dashes >= 1 /\ Ch(s, lt + dashes + 1) = ">"
    THEN lt + dashes
            + (IF wide /\ Ch(s, lt + dashes + 2) = ">" THEN 2 ELSE 1)
    ELSE 0

\* <?-+>>? at the start of s with then \s*(\S+)\s*:?\s*(.*): the greedy
\* match takes the second '>' first and gives it back if nothing is left
\* for the target
ArrowAndTarget(s, wide) ==
    LET After(arrow, t) == TargetAndLabel(arrow, t, NonSpaceRun(t))
        Arrow(n) == IF n = 0 THEN NoMatch
                    ELSE After(Upto(s, n), SkipSpaces(From(s, n)))
        Dashes(lt) ==
            Arrow(ArrowLength(s, wide, lt, LeadCount(From(s, lt), "-")))
    IN  Dashes(IF StartsWith(s, "<") THEN 1 ELSE 0)

\* the first of two matches that succeeded
FirstOk(m1, m2) == IF m1.ok THEN m1 ELSE m2

\* the match whose first group is the first n characters of line, or a
\* shorter one (the engine backtracks into the greedy (\S+))
RECURSIVE MessageFrom(_, _)
MessageFrom(line, n) ==
    LET Found(m) ==
            IF m.ok
            THEN [ok |-> TRUE, source |-> Upto(line, n), arrow |-> m.arrow,
                  target |-> m.target, label |-> m.label]
            ELSE MessageFrom(line, n - 1)
        Arrows(t) == Found(FirstOk(ArrowAndTarget(t, TRUE),
                                   ArrowAndTarget(t, FALSE)))
    IN  IF n < 1 THEN NoMatch ELSE Arrows(SkipSpaces(From(line, n)))

\* re.match(r'(\S+)\s*(<?-+>>?)\s*(\S+)\s*:?\s*(.*)', line)
message_match(line) == MessageFrom(line, Len(NonSpaceRun(line)))

\* what "end_index": None holds
NoIndex == -1

\* the locals of _parse_sequence before the loop
SeqInit ==
    [participants |-> <<>>, messages |-> <<>>, fragments |-> <<>>,
     fragment_stack |-> <<>>, message_index |-> 0]

\* replace the last element of a non-empty sequence
SetLast(q, v) == [q EXCEPT ![Len(q)] = v]
Last(q) == q[Len(q)]
Pop(q) == SubSeq(q, 1, Len(q) - 1)

\* is_dashed = '--' in arrow; is_async = '>>' in arrow
is_dashed(arrow) == Contains(arrow, "--")
is_async(arrow) == Contains(arrow, ">>")

\* a reply flag that is the dashed flag alone
DashedIsReturn(arrow) == is_dashed(arrow)

\* is_return = is_dashed and not is_async
is_return(arrow) == is_dashed(arrow) /\ ~is_async(arrow)

\* an iteration whose 'end' records the index of the last message read
SeqStepInclusiveEnd(st, line) ==
    LET Participant(pm) ==
            [st EXCEPT !.participants =
                Append(@, [name |-> Replace(pm.name, "\\n", "__NEWLINE__"),
                           alias |-> IF pm.alias # "" THEN pm.alias
                                     ELSE pm.name,
                           type |-> pm.ptype])]
        Fragment(fm) ==
            [st EXCEPT !.fragment_stack =
                Append(@, [type |-> fm.type, label |-> fm.label,
                           start_index |-> st.message_index,
                           sections |-> <<[label |-> fm.label,
                                           start_index |-> st.message_index]>>,
                           end_index |-> NoIndex])]
        Section(top, label) ==
            [st EXCEPT !.fragment_stack =
                SetLast(@, [top EXCEPT !.sections =
                    Append(@, [label |-> label,
                               start_index |-> st.message_index])])]
        Close(fragment) ==
            [st EXCEPT
                !.fragment_stack = Pop(@),
                !.fragments = Append(@,
                    [fragment EXCEPT !.end_index = st.message_index - 1])]
        Arrow(mm, return, async) ==
            [st EXCEPT
                !.messages = Append(@,
                    [source |-> mm.source, target |-> mm.target,
                     label |-> Strip(mm.label),
                     is_return |-> return, is_async |-> async]),
                !.message_index = @ + 1]
        Message(mm) ==
            IF mm.ok THEN Arrow(mm, is_return(mm.arrow), is_async(mm.arrow))
            ELSE st
        Other(fm) ==
            IF fm.ok THEN Fragment(fm)
            ELSE IF StartsWith(line, "else")
            THEN IF st.fragment_stack # <<>>
                 THEN Section(Last(st.fragment_stack),
                              IF Len(line) > 4 THEN Strip(From(line, 4))
                              ELSE "")
                 ELSE st
            ELSE IF line = "end"
            THEN IF st.fragment_stack # <<>>
                 THEN Close(Last(st.fragment_stack))
                 ELSE st
            ELSE IF /\ Contains(line, "->")
                    /\ ~StartsWith(line, "'")
                    /\ ~StartsWith(line, "note")
            THEN Message(message_match(line))
            ELSE st
        Line(pm) == IF pm.ok THEN Participant(pm)
                    ELSE Other(fragment_match(line))
    IN  Line(participant_match(line))

\* one iteration of the loop of _parse_sequence
SeqStep(st, line) ==
    LET Participant(pm) ==
            [st EXCEPT !.participants =
                Append(@, [name |-> Replace(pm.name, "\\n", "__NEWLINE__"),
                           alias |-> IF pm.alias # "" THEN pm.alias
                                     ELSE pm.name,
                           type |-> pm.ptype])]
        Fragment(fm) ==
            [st EXCEPT !.fragment_stack =
                Append(@, [type |-> fm.type, label |-> fm.label,
                           start_index |-> st.message_index,
                           sections |-> <<[label |-> fm.label,
                                           start_index |-> st.message_index]>>,
                           end_index |-> NoIndex])]
        Section(top, label) ==
            [st EXCEPT !.fragment_stack =
                SetLast(@, [top EXCEPT !.sections =
                    Append(@, [label |-> label,
                               start_index |-> st.message_index])])]
        Close(fragment) ==
            [st EXCEPT
                !.fragment_stack = Pop(@),
                !.fragments = Append(@,
                    [fragment EXCEPT !.end_index = st.message_index])]
        Arrow(mm, return, async) ==
            [st EXCEPT
                !.messages = Append(@,
                    [source |-> mm.source, target |-> mm.target,
                     label |-> Strip(mm.label),
                     is_return |-> return, is_async |-> async]),
                !.message_index = @ + 1]
        Message(mm) ==
            IF mm.ok THEN Arrow(mm, is_return(mm.arrow), is_async(mm.arrow))
            ELSE st
        Other(fm) ==
            IF fm.ok THEN Fragment(fm)
            ELSE IF StartsWith(line, "else")
            THEN IF st.fragment_stack # <<>>
                 THEN Section(Last(st.fragment_stack),
                              IF Len(line) > 4 THEN Strip(From(line, 4))
                              ELSE "")
                 ELSE st
            ELSE IF line = "end"
            THEN IF st.fragment_stack # <<>>
                 THEN Close(Last(st.fragment_stack))
                 ELSE st
            ELSE IF /\ Contains(line, "->")
                    /\ ~StartsWith(line, "'")
                    /\ ~StartsWith(line, "note")
            THEN Message(message_match(line))
            ELSE st
        Line(pm) == IF pm.ok THEN Participant(pm)
                    ELSE Other(fragment_match(line))
    IN  Line(participant_match(line))

\* the dict returned if the fragments still open were in it
SeqDataWithOpen(st) ==
    [type |-> "sequence", participants |-> st.participants,
     messages |-> st.messages,
     fragments |-> st.fragments \o st.fragment_stack]

\* the dict _parse_sequence returns
SeqData(st) ==
    [type |-> "sequence", participants |-> st.participants,
     messages |-> st.messages, fragments |-> st.fragments]

\* the loop of _parse_sequence over the first n lines
RECURSIVE SeqLoop(_, _)
SeqLoop(ls, n) == IF n = 0 THEN SeqInit ELSE SeqStep(SeqLoop(ls, n - 1), ls[n])

_parse_sequence(ls) == SeqData(SeqLoop(ls, Len(ls)))

---------------------------------------------------------------------------
(* PlantUMLParser._parse_activity.                                         *)

\* what Python's "if x:" accepts of a string or None
Truthy(x) == x # None /\ x # ""

\* x or default
OrElse(x, default) == IF Truthy(x) THEN x ELSE default

\* \( ([^)]*) \) at the start of s: the group and what follows, the group
\* of at least min characters
Parenthesized(s, min) ==
    LET n == LeadCountNot(Tail(s), ")")
    IN  IF StartsWith(s, "(") /\ n >= min /\ Ch(s, n + 2) = ")"
        THEN [ok |-> TRUE, group |-> SubSeq(s, 2, n + 1), rest |-> From(s, n + 2)]
        ELSE NoMatch

\* re.match(r'if\s*\(([^)]+)\)\s*then\s*\(([^)]*)\)', line)
if_match(line) ==
    LET cond == Parenthesized(SkipSpaces(From(line, 2)), 1)
        then == SkipSpaces(cond.rest)
        label == Parenthesized(SkipSpaces(From(then, 4)), 0)
    IN  IF /\ StartsWith(line, "if")
           /\ cond.ok
           /\ StartsWith(then, "then")
           /\ label.ok
        THEN [ok |-> TRUE, condition |-> cond.group, label |-> label.group]
        ELSE NoMatch

\* re.match(r'else\s*\(([^)]*)\)', line)
else_match(line) ==
    LET label == Parenthesized(SkipSpaces(From(line, 4)), 0)
    IN  IF StartsWith(line, "else") /\ label.ok
        THEN [ok |-> TRUE, label |-> label.group]
        ELSE NoMatch

\* the locals of _parse_activity before the loop
ActInit ==
    [activities |-> <<>>, transitions |-> <<>>, swimlanes |-> <<>>,
     current_swimlane |-> None, prev_stack |-> <<"start">>,
     decision_stack |-> <<>>, fork_stack |-> <<>>,
     activity_id |-> 0, fork_id |-> 0, stop_id |-> 0,
     multiline_activity |-> None]

\* branch_side of a node created now: "right" in an else branch
BranchSide(st) ==
    IF st.decision_stack # <<>> /\ Last(st.decision_stack).in_else
    THEN "right" ELSE "center"

Transition(source, target, label) ==
    [source |-> source, target |-> target, label |-> label]

\* transitions with one more from the cursor, if the cursor is live
FromCursor(st, target, label) ==
    IF Truthy(Last(st.prev_stack))
    THEN Append(st.transitions, Transition(Last(st.prev_stack), target, label))
    ELSE st.transitions

\* line == 'start'
ActStart(st) ==
    [st EXCEPT
        !.activities = Append(@, [id |-> "start", name |-> "", type |-> "start",
                                  swimlane |-> st.current_swimlane]),
        !.prev_stack = SetLast(@, "start")]

\* a stop that leaves the end node as the cursor
ActStopKeepsCursor(st) ==
    LET stop_name == "stop_" \o ToString(st.stop_id)
    IN  [st EXCEPT
            !.stop_id = @ + 1,
            !.activities = Append(@,
                [id |-> stop_name, name |-> "", type |-> "end",
                 swimlane |-> st.current_swimlane,
                 branch_depth |-> Len(st.decision_stack),
                 branch_side |-> BranchSide(st)]),
            !.transitions = FromCursor(st, stop_name, ""),
            !.prev_stack = SetLast(@, stop_name)]

\* a stop that does not count the end nodes it names
ActStopUncounted(st) ==
    LET stop_name == "stop_" \o ToString(st.stop_id)
    IN  [st EXCEPT
            !.activities = Append(@,
                [id |-> stop_name, name |-> "", type |-> "end",
                 swimlane |-> st.current_swimlane,
                 branch_depth |-> Len(st.decision_stack),
                 branch_side |-> BranchSide(st)]),
            !.transitions = FromCursor(st, stop_name, ""),
            !.prev_stack = SetLast(@, None)]

\* line == 'stop'
ActStop(st) ==
    LET stop_name == "stop_" \o ToString(st.stop_id)
    IN  [st EXCEPT
            !.stop_id = @ + 1,
            !.activities = Append(@,
                [id |-> stop_name, name |-> "", type |-> "end",
                 swimlane |-> st.current_swimlane,
                 branch_depth |-> Len(st.decision_stack),
                 branch_side |-> BranchSide(st)]),
            !.transitions = FromCursor(st, stop_name, ""),
            !.prev_stack = SetLast(@, None)]

\* the label of the transition from the cursor to a new activity, and the
\* decision stack after it
ActivityLabel(st) ==
    LET top == Last(st.decision_stack)
    IN  IF st.decision_stack # <<>> /\ Last(st.prev_stack) = top.id
        THEN IF top.in_else THEN top.no_label
             ELSE IF ~top.first_transition_done THEN top.yes_label
             ELSE ""
        ELSE ""

MarkFirstTransition(st) ==
    LET top == Last(st.decision_stack)
    IN  IF /\ Truthy(Last(st.prev_stack))
           /\ st.decision_stack # <<>>
           /\ Last(st.prev_stack) = top.id
           /\ ~top.in_else
           /\ ~top.first_transition_done
        THEN SetLast(st.decision_stack,
                     [top EXCEPT !.first_transition_done = TRUE])
        ELSE st.decision_stack

\* line.startswith(':') and line.endswith(';')
ActActivity(st, line) ==
    LET activity_name == Strip(StripChars(line, ":;"))
        act_id == "act_" \o ToString(st.activity_id)
    IN  [st EXCEPT
            !.activity_id = @ + 1,
            !.activities = Append(@,
                [id |-> act_id, name |-> activity_name, type |-> "activity",
                 swimlane |-> st.current_swimlane,
                 branch_depth |-> Len(st.decision_stack),
                 branch_side |-> BranchSide(st)]),
            !.transitions = FromCursor(st, act_id, ActivityLabel(st)),
            !.decision_stack = MarkFirstTransition(st),
            !.prev_stack = SetLast(@, act_id)]

\* if (condition) then (label)
ActIf(st, m) ==
    LET dec_id == "dec_" \o ToString(st.activity_id)
        branch_depth == Len(st.decision_stack)
    IN  [st EXCEPT
            !.activity_id = @ + 1,
            !.activities = Append(@,
                [id |-> dec_id, name |-> m.condition, type |-> "decision",
                 swimlane |-> st.current_swimlane,
                 branch_depth |-> branch_depth, branch_side |-> "center"]),
            !.transitions = FromCursor(st, dec_id, ""),
            !.decision_stack = Append(@,
                [id |-> dec_id, yes_label |-> OrElse(m.label, "oui"),
                 no_label |-> "non", first_branch_end |-> None,
                 in_else |-> FALSE, depth |-> branch_depth,
                 first_transition_done |-> FALSE]),
            !.prev_stack = Append(@, dec_id)]

\* an else that does not keep the end of the first branch
ActElseNoSnapshot(st, m) ==
    LET top == Last(st.decision_stack)
    IN  [st EXCEPT
            !.decision_stack = SetLast(@,
                [top EXCEPT !.no_label = OrElse(m.label, "non"),
                            !.in_else = TRUE,
                            !.first_transition_done = FALSE]),
            !.prev_stack = SetLast(@, top.id)]

\* an else that writes the label of the first branch on the transitions
\* recorded out of the decision
ActElseRelabels(st, m) ==
    LET top == Last(st.decision_stack)
    IN  [st EXCEPT
            !.transitions =
                [i \in DOMAIN st.transitions |->
                    IF st.transitions[i].source = top.id
                    THEN [st.transitions[i] EXCEPT !.label = top.yes_label]
                    ELSE st.transitions[i]],
            !.decision_stack = SetLast(@,
                [top EXCEPT !.no_label = OrElse(m.label, "non"),
                            !.first_branch_end = Last(st.prev_stack),
                            !.in_else = TRUE,
                            !.first_transition_done = FALSE]),
            !.prev_stack = SetLast(@, top.id)]

\* an else that goes on from the end of the first branch
ActElseKeepsCursor(st, m) ==
    LET top == Last(st.decision_stack)
    IN  [st EXCEPT
            !.decision_stack = SetLast(@,
                [top EXCEPT !.no_label = OrElse(m.label, "non"),
                            !.first_branch_end = Last(st.prev_stack),
                            !.in_else = TRUE,
                            !.first_transition_done = FALSE])]

\* else (label), with a decision open
ActElse(st, m) ==
    LET top == Last(st.decision_stack)
    IN  [st EXCEPT
            !.decision_stack = SetLast(@,
                [top EXCEPT !.no_label = OrElse(m.label, "non"),
                            !.first_branch_end = Last(st.prev_stack),
                            !.in_else = TRUE,
                            !.first_transition_done = FALSE]),
            !.prev_stack = SetLast(@, top.id)]

\* an endif that leaves the cursor of the decision on the stack when it
\* creates no merge
ActEndifLeavesCursor(st) ==
    LET decision == Last(st.decision_stack)
        cursor == Last(st.prev_stack)
        has_yes_continuation == decision.first_branch_end # None
        has_no_continuation == cursor # None /\ cursor # decision.id
        merge_id == "merge_" \o ToString(st.activity_id)
        yes == IF has_yes_continuation
               THEN <<Transition(decision.first_branch_end, merge_id, "")>>
               ELSE <<>>
        no == IF has_no_continuation
              THEN <<Transition(cursor, merge_id, "")>>
              ELSE IF cursor = decision.id
              THEN <<Transition(decision.id, merge_id, decision.no_label)>>
              ELSE <<>>
    IN  IF has_yes_continuation \/ has_no_continuation
        THEN [st EXCEPT
                !.decision_stack = Pop(@),
                !.activity_id = @ + 1,
                !.activities = Append(@,
                    [id |-> merge_id, name |-> "", type |-> "merge",
                     swimlane |-> st.current_swimlane,
                     branch_depth |-> decision.depth,
                     branch_side |-> "center"]),
                !.transitions = @ \o yes \o no,
                !.prev_stack = SetLast(Pop(@), merge_id)]
        ELSE [st EXCEPT !.decision_stack = Pop(@)]

\* endif, with a decision open
ActEndif(st) ==
    LET decision == Last(st.decision_stack)
        cursor == Last(st.prev_stack)
        has_yes_continuation == decision.first_branch_end # None
        has_no_continuation == cursor # None /\ cursor # decision.id
        merge_id == "merge_" \o ToString(st.activity_id)
        yes == IF has_yes_continuation
               THEN <<Transition(decision.first_branch_end, merge_id, "")>>
               ELSE <<>>
        no == IF has_no_continuation
              THEN <<Transition(cursor, merge_id, "")>>
              ELSE IF cursor = decision.id
              THEN <<Transition(decision.id, merge_id, decision.no_label)>>
              ELSE <<>>
    IN  IF has_yes_continuation \/ has_no_continuation
        THEN [st EXCEPT
                !.decision_stack = Pop(@),
                !.activity_id = @ + 1,
                !.activities = Append(@,
                    [id |-> merge_id, name |-> "", type |-> "merge",
                     swimlane |-> st.current_swimlane,
                     branch_depth |-> decision.depth,
                     branch_side |-> "center"]),
                !.transitions = @ \o yes \o no,
                !.prev_stack = SetLast(Pop(@), merge_id)]
        ELSE [st EXCEPT
                !.decision_stack = Pop(@),
                !.prev_stack = Pop(@)]

\* line == 'fork'
ActFork(st) ==
    LET fork_name == "fork_" \o ToString(st.fork_id)
    IN  [st EXCEPT
            !.fork_id = @ + 1,
            !.activities = Append(@,
                [id |-> fork_name, name |-> "", type |-> "fork",
                 swimlane |-> st.current_swimlane]),
            !.transitions = FromCursor(st, fork_name, ""),
            !.fork_stack = Append(@, [id |-> fork_name, branches |-> <<>>]),
            !.prev_stack = SetLast(@, fork_name)]

\* fork again, with a fork open
ActForkAgain(st) ==
    LET top == Last(st.fork_stack)
    IN  [st EXCEPT
            !.fork_stack = SetLast(@,
                [top EXCEPT !.branches = Append(@, Last(st.prev_stack))]),
            !.prev_stack = SetLast(@, top.id)]

\* a join that is reached from the last branch only
JoinLastBranch(branches, join_name) ==
    IF branches # <<>> /\ Truthy(Last(branches))
    THEN <<Transition(Last(branches), join_name, "")>>
    ELSE <<>>

\* for branch_end in fork["branches"]: if branch_end: transitions.append(..)
RECURSIVE JoinTransitions(_, _)
JoinTransitions(branches, join_name) ==
    IF branches = <<>> THEN <<>>
    ELSE (IF Truthy(Head(branches))
          THEN <<Transition(Head(branches), join_name, "")>>
          ELSE <<>>) \o JoinTransitions(Tail(branches), join_name)

\* end fork, with a fork open
ActEndFork(st) ==
    LET fork == Last(st.fork_stack)
        branches == Append(fork.branches, Last(st.prev_stack))
        join_name == "join_" \o ToString(st.fork_id)
    IN  [st EXCEPT
            !.fork_stack = Pop(@),
            !.fork_id = @ + 1,
            !.activities = Append(@,
                [id |-> join_name, name |-> "", type |-> "join",
                 swimlane |-> st.current_swimlane]),
            !.transitions = @ \o JoinTransitions(branches, join_name),
            !.prev_stack = SetLast(@, join_name)]

\* a lane marker that records the name every time it is read
ActSwimlaneAppends(st, line) ==
    LET swimlane_name == Strip(StripChars(line, "|"))
    IN  IF Contains(swimlane_name, "|") THEN st
        ELSE [st EXCEPT
                !.swimlanes =
                    IF swimlane_name # ""
                    THEN Append(@, swimlane_name) ELSE @,
                !.current_swimlane = swimlane_name]

\* |Name|
ActSwimlane(st, line) ==
    LET swimlane_name == Strip(StripChars(line, "|"))
    IN  IF Contains(swimlane_name, "|") THEN st
        ELSE [st EXCEPT
                !.swimlanes =
                    IF swimlane_name # "" /\ swimlane_name \notin Range(@)
                    THEN Append(@, swimlane_name) ELSE @,
                !.current_swimlane = swimlane_name]

\* the loop body if an endif with no decision open ended the path
ActLineEndingPath(st, line) ==
    IF StartsWith(line, "|") /\ EndsWith(line, "|") THEN ActSwimlane(st, line)
    ELSE IF line = "start" THEN ActStart(st)
    ELSE IF line = "stop" THEN ActStop(st)
    ELSE IF StartsWith(line, ":") /\ EndsWith(line, ";")
         THEN ActActivity(st, line)
    ELSE IF if_match(line).ok THEN ActIf(st, if_match(line))
    ELSE IF else_match(line).ok /\ st.decision_stack # <<>>
         THEN ActElse(st, else_match(line))
    ELSE IF line = "endif"
         THEN IF st.decision_stack # <<>> THEN ActEndif(st)
              ELSE [st EXCEPT !.prev_stack = SetLast(@, None)]
    ELSE IF line = "fork" THEN ActFork(st)
    ELSE IF line = "fork again" /\ st.fork_stack # <<>> THEN ActForkAgain(st)
    ELSE IF line = "end fork" /\ st.fork_stack # <<>> THEN ActEndFork(st)
    ELSE st

\* the loop body if endif did not look for an open decision before it
\* takes the cursor of the branch off the stack
ActLineUnguarded(st, line) ==
    IF StartsWith(line, "|") /\ EndsWith(line, "|") THEN ActSwimlane(st, line)
    ELSE IF line = "start" THEN ActStart(st)
    ELSE IF line = "stop" THEN ActStop(st)
    ELSE IF StartsWith(line, ":") /\ EndsWith(line, ";")
         THEN ActActivity(st, line)
    ELSE IF if_match(line).ok THEN ActIf(st, if_match(line))
    ELSE IF else_match(line).ok /\ st.decision_stack # <<>>
         THEN ActElse(st, else_match(line))
    ELSE IF line = "endif"
         THEN IF st.decision_stack # <<>> THEN ActEndif(st)
              ELSE [st EXCEPT !.prev_stack = Pop(@)]
    ELSE IF line = "fork" THEN ActFork(st)
    ELSE IF line = "fork again" /\ st.fork_stack # <<>> THEN ActForkAgain(st)
    ELSE IF line = "end fork" /\ st.fork_stack # <<>> THEN ActEndFork(st)
    ELSE st

\* the loop body of _parse_activity from the swim-lane test on
ActLine(st, line) ==
    IF StartsWith(line, "|") /\ EndsWith(line, "|") THEN ActSwimlane(st, line)
    ELSE IF line = "start" THEN ActStart(st)
    ELSE IF line = "stop" THEN ActStop(st)
    ELSE IF StartsWith(line, ":") /\ EndsWith(line, ";")
         THEN ActActivity(st, line)
    ELSE IF if_match(line).ok THEN ActIf(st, if_match(line))
    ELSE IF else_match(line).ok /\ st.decision_stack # <<>>
         THEN ActElse(st, else_match(line))
    ELSE IF line = "endif" /\ st.decision_stack # <<>> THEN ActEndif(st)
    ELSE IF line = "fork" THEN ActFork(st)
    ELSE IF line = "fork again" /\ st.fork_stack # <<>> THEN ActForkAgain(st)
    ELSE IF line = "end fork" /\ st.fork_stack # <<>> THEN ActEndFork(st)
    ELSE st

\* an iteration that handles the lines of an open multi-line activity as
\* the lines they would be outside of it
ActStepKeywords(st, line) ==
    IF \/ line = ""
       \/ StartsWith(line, "'")
       \/ StartsWith(line, "note")
       \/ StartsWith(line, "end note")
       \/ StartsWith(line, "legend")
       \/ StartsWith(line, "endlegend")
    THEN st
    ELSE IF StartsWith(line, ":") /\ ~EndsWith(line, ";")
    THEN [st EXCEPT !.multiline_activity = From(line, 1)]
    ELSE IF st.multiline_activity # None
    THEN IF EndsWith(line, ";")
         THEN ActLine([st EXCEPT !.multiline_activity = None],
                      ":" \o st.multiline_activity \o " "
                          \o Upto(line, Len(line) - 1) \o ";")
         ELSE ActLine(st, line)
    ELSE ActLine(st, line)

\* one iteration of the loop of _parse_activity
ActStep(st, line) ==
    IF \/ line = ""
       \/ StartsWith(line, "'")
       \/ StartsWith(line, "note")
       \/ StartsWith(line, "end note")
       \/ StartsWith(line, "legend")
       \/ StartsWith(line, "endlegend")
    THEN st
    ELSE IF StartsWith(line, ":") /\ ~EndsWith(line, ";")
    THEN [st EXCEPT !.multiline_activity = From(line, 1)]
    ELSE IF st.multiline_activity # None
    THEN IF EndsWith(line, ";")
         THEN ActLine([st EXCEPT !.multiline_activity = None],
                      ":" \o st.multiline_activity \o " "
                          \o Upto(line, Len(line) - 1) \o ";")
         ELSE [st EXCEPT !.multiline_activity = @ \o " " \o line]
    ELSE ActLine(st, line)

\* the dict _parse_activity returns
ActData(st) ==
    [type |-> "activity", activities |-> st.activities,
     transitions |-> st.transitions, swimlanes |-> st.swimlanes]

\* the loop of _parse_activity over the first n lines
RECURSIVE ActLoop(_, _)
ActLoop(ls, n) == IF n = 0 THEN ActInit ELSE ActStep(ActLoop(ls, n - 1), ls[n])

_parse_activity(ls) == ActData(ActLoop(ls, Len(ls)))

---------------------------------------------------------------------------
(* re.match for the larger patterns: a backtracking matcher over a pattern *)
(* written as a sequence of atoms, trying the alternatives in the order    *)
(* Python's engine tries them (greedy first, leftmost alternative first).  *)

\* a literal string
Lit(str) == [t |-> "lit", s |-> str]
\* between min and unboundedly many characters of chars (not of chars, if
\* neg), greedy
Rep(chars, neg, min) == [t |-> "rep", chars |-> chars, neg |-> neg, min |-> min]
\* (?:a|b|..): the first alternative that lets the rest match
Alt(alts) == [t |-> "alt", alts |-> alts]
\* (?:body)?
Opt(body) == [t |-> "opt", body |-> body]
\* the parentheses of capturing group g
Open(g) == [t |-> "open", g |-> g]
Close(g) == [t |-> "close", g |-> g]
\* $
Eos == [t |-> "eos"]

\* \s* , \s+ , (\S+) as group g, "[^"]*" and .*
Spaces0 == Rep(Whitespace, FALSE, 0)
Spaces1 == Rep(Whitespace, FALSE, 1)
Word(g) == <<Open(g), Rep(Whitespace, TRUE, 1), Close(g)>>
QuotedText == <<Lit("\""), Rep("\"", TRUE, 0), Lit("\"")>>
AnyText == Rep("\n", TRUE, 0)

\* the number of characters from position pos on that atom a accepts
RECURSIVE RunLength(_, _, _)
RunLength(a, s, pos) ==
    IF pos <= Len(s) /\ (CharIn(Ch(s, pos), a.chars) # a.neg)
    THEN 1 + RunLength(a, s, pos + 1)
    ELSE 0

\* where each group began, and what each group matched: None until the
\* group takes part in the match
NoGroups == [open |-> [g \in 1..4 |-> 0], groups |-> [g \in 1..4 |-> None]]

RECURSIVE Match(_, _, _, _)
RECURSIVE MatchRep(_, _, _, _, _, _)
RECURSIVE MatchAlt(_, _, _, _, _)

\* pat matched against s from position pos on
Match(pat, s, pos, st) ==
    IF pat = <<>> THEN [ok |-> TRUE, groups |-> st.groups]
    ELSE LET a == Head(pat)
             rest == Tail(pat)
         IN  CASE a.t = "lit" ->
                    IF /\ pos + Len(a.s) - 1 <= Len(s)
                       /\ SubSeq(s, pos, pos + Len(a.s) - 1) = a.s
                    THEN Match(rest, s, pos + Len(a.s), st)
                    ELSE NoMatch
               [] a.t = "rep" ->
                    MatchRep(RunLength(a, s, pos), a.min, rest, s, pos, st)
               [] a.t = "alt" -> MatchAlt(a.alts, rest, s, pos, st)
               [] a.t = "opt" ->
                    LET taken == Match(a.body \o rest, s, pos, st)
                    IN  IF taken.ok THEN taken ELSE Match(rest, s, pos, st)
               [] a.t = "open" ->
                    Match(rest, s, pos, [st EXCEPT !.open[a.g] = pos])
               [] a.t = "close" ->
                    Match(rest, s, pos,
                          [st EXCEPT !.groups[a.g] =
                               SubSeq(s, st.open[a.g], pos - 1)])
               [] a.t = "eos" ->
                    IF pos = Len(s) + 1 THEN Match(rest, s, pos, st)
                    ELSE NoMatch

\* a greedy repetition: n characters, or fewer down to min, then the rest
MatchRep(n, min, rest, s, pos, st) ==
    IF n < min THEN NoMatch
    ELSE LET r == Match(rest, s, pos + n, st)
         IN  IF r.ok THEN r ELSE MatchRep(n - 1, min, rest, s, pos, st)

\* the alternatives in order
MatchAlt(alts, rest, s, pos, st) ==
    IF alts = <<>> THEN NoMatch
    ELSE LET r == Match(Head(alts) \o rest, s, pos, st)
         IN  IF r.ok THEN r ELSE MatchAlt(Tail(alts), rest, s, pos, st)

\* re.match(pat, s)
ReMatch(pat, s) == Match(pat, s, 1, NoGroups)

\* match.group(g) or default
GroupOr(m, g, default) == OrElse(m.groups[g], default)

---------------------------------------------------------------------------
(* PlantUMLParser._parse_class.                                            *)

\* (class|interface|abstract\s+class|enum)\s+(\S+)(?:\s+{)?
ClassDeclPattern ==
    <<Open(1),
      Alt(<<<<Lit("class")>>, <<Lit("interface")>>,
            <<Lit("abstract"), Spaces1, Lit("class")>>, <<Lit("enum")>>>>),
      Close(1), Spaces1>> \o Word(2) \o <<Opt(<<Spaces1, Lit("{")>>)>>

\* (\S+)\s*(?:"[^"]*")?\s*(<?\|?(?:--|\.\.)(?:o|\*)?>?\|?)\s*(?:"[^"]*")?\s*
\* (\S+)(?:\s*:\s*(.*))?
ClassRelationPattern ==
    Word(1) \o <<Spaces0, Opt(QuotedText), Spaces0, Open(2),
      Opt(<<Lit("<")>>), Opt(<<Lit("|")>>),
      Alt(<<<<Lit("--")>>, <<Lit("..")>>>>),
      Opt(<<Alt(<<<<Lit("o")>>, <<Lit("*")>>>>)>>),
      Opt(<<Lit(">")>>), Opt(<<Lit("|")>>), Close(2),
      Spaces0, Opt(QuotedText), Spaces0>> \o Word(3)
      \o <<Opt(<<Spaces0, Lit(":"), Spaces0, Open(4), AnyText, Close(4)>>)>>

\* ^[A-Z_]+$
EnumValuePattern == <<Rep(UpperCase \o "_", FALSE, 1), Eos>>

RelationTokens ==
    {"<|--", "--|>", "..|>", "<|..", "--", "o--", "*--", "--o", "--*"}

\* the locals of _parse_class before the loop; current_class is the index
\* in classes of the dict it refers to, 0 for None
ClassInit ==
    [classes |-> <<>>, relations |-> <<>>, current_class |-> 0,
     in_methods_section |-> FALSE]

\* the kind of the relation whose token is rel_type
RelationType(rel_type) ==
    IF Contains(rel_type, "<|--") \/ Contains(rel_type, "--|>")
    THEN "inheritance"
    ELSE IF Contains(rel_type, "<|..") \/ Contains(rel_type, "..|>")
    THEN "implementation"
    ELSE IF Contains(rel_type, "o--") \/ Contains(rel_type, "--o")
    THEN "aggregation"
    ELSE IF Contains(rel_type, "*--") \/ Contains(rel_type, "--*")
    THEN "composition"
    ELSE "association"

\* a line inside the block of the current class, if the section flag were
\* not read
ClassBodyOneSection(st, line) ==
    LET c == st.current_class
    IN  IF line = "--" THEN [st EXCEPT !.in_methods_section = TRUE]
        ELSE IF Contains(line, "(") /\ Contains(line, ")")
        THEN [st EXCEPT !.classes[c].methods = Append(@, line)]
        ELSE IF \/ StartsWith(line, "+")
                \/ StartsWith(line, "-")
                \/ StartsWith(line, "#")
        THEN [st EXCEPT !.classes[c].attributes = Append(@, line)]
        ELSE IF /\ st.classes[c].type = "enum"
                /\ ReMatch(EnumValuePattern, line).ok
        THEN [st EXCEPT !.classes[c].attributes = Append(@, line)]
        ELSE st

\* a line inside the block of the current class
ClassBody(st, line) ==
    LET c == st.current_class
    IN  IF line = "--" THEN [st EXCEPT !.in_methods_section = TRUE]
        ELSE IF Contains(line, "(") /\ Contains(line, ")")
        THEN [st EXCEPT !.classes[c].methods = Append(@, line)]
        ELSE IF \/ StartsWith(line, "+")
                \/ StartsWith(line, "-")
                \/ StartsWith(line, "#")
        THEN IF st.in_methods_section
             THEN [st EXCEPT !.classes[c].methods = Append(@, line)]
             ELSE [st EXCEPT !.classes[c].attributes = Append(@, line)]
        ELSE IF /\ st.classes[c].type = "enum"
                /\ ReMatch(EnumValuePattern, line).ok
        THEN [st EXCEPT !.classes[c].attributes = Append(@, line)]
        ELSE st

\* an iteration in which only a declaration with a brace opens a block
ClassStepBraceOpens(st, line) ==
    LET dm == ReMatch(ClassDeclPattern, line)
        rm == ReMatch(ClassRelationPattern, line)
    IN  IF \/ StartsWith(line, "class ")
           \/ StartsWith(line, "interface ")
           \/ StartsWith(line, "abstract ")
           \/ StartsWith(line, "enum ")
        THEN IF dm.ok
             THEN [st EXCEPT
                     !.classes = Append(@,
                         [name |-> dm.groups[2], type |-> dm.groups[1],
                          attributes |-> <<>>, methods |-> <<>>]),
                     !.current_class =
                         IF Contains(line, "{") THEN Len(st.classes) + 1
                         ELSE 0,
                     !.in_methods_section = FALSE]
             ELSE st
        ELSE IF st.current_class # 0 /\ line # "" /\ ~StartsWith(line, "}")
        THEN ClassBody(st, line)
        ELSE IF line = "}"
        THEN [st EXCEPT !.current_class = 0, !.in_methods_section = FALSE]
        ELSE IF st.current_class = 0 /\ AnyIn(RelationTokens, line)
        THEN IF rm.ok
             THEN [st EXCEPT !.relations = Append(@,
                     [source |-> rm.groups[1], target |-> rm.groups[3],
                      type |-> RelationType(rm.groups[2]),
                      label |-> GroupOr(rm, 4, "")])]
             ELSE st
        ELSE st

\* one iteration of the loop of _parse_class
ClassStep(st, line) ==
    LET dm == ReMatch(ClassDeclPattern, line)
        rm == ReMatch(ClassRelationPattern, line)
    IN  IF \/ StartsWith(line, "class ")
           \/ StartsWith(line, "interface ")
           \/ StartsWith(line, "abstract ")
           \/ StartsWith(line, "enum ")
        THEN IF dm.ok
             THEN [st EXCEPT
                     !.classes = Append(@,
                         [name |-> dm.groups[2], type |-> dm.groups[1],
                          attributes |-> <<>>, methods |-> <<>>]),
                     !.current_class = Len(st.classes) + 1,
                     !.in_methods_section = FALSE]
             ELSE st
        ELSE IF st.current_class # 0 /\ line # "" /\ ~StartsWith(line, "}")
        THEN ClassBody(st, line)
        ELSE IF line = "}"
        THEN [st EXCEPT !.current_class = 0, !.in_methods_section = FALSE]
        ELSE IF st.current_class = 0 /\ AnyIn(RelationTokens, line)
        THEN IF rm.ok
             THEN [st EXCEPT !.relations = Append(@,
                     [source |-> rm.groups[1], target |-> rm.groups[3],
                      type |-> RelationType(rm.groups[2]),
                      label |-> GroupOr(rm, 4, "")])]
             ELSE st
        ELSE st

\* the dict _parse_class returns
ClassData(st) ==
    [type |-> "class", classes |-> st.classes, relations |-> st.relations]

\* the loop of _parse_class over the first n lines
RECURSIVE ClassLoop(_, _)
ClassLoop(ls, n) ==
    IF n = 0 THEN ClassInit ELSE ClassStep(ClassLoop(ls, n - 1), ls[n])

_parse_class(ls) == ClassData(ClassLoop(ls, Len(ls)))

---------------------------------------------------------------------------
(* PlantUMLParser._parse_usecase.                                          *)

WordChars == UpperCase \o LowerCase \o Digits \o "_"

\* (?:"([^"]+)"|(\S+))(?:\s+as\s+(\S+))? with the groups 1, 2 and 3
NameAndAlias ==
    <<Alt(<<<<Lit("\""), Open(1), Rep("\"", TRUE, 1), Close(1), Lit("\"")>>,
            Word(2)>>),
      Opt(<<Spaces1, Lit("as"), Spaces1>> \o Word(3))>>

\* rectangle\s+"([^"]+)"
RectanglePattern ==
    <<Lit("rectangle"), Spaces1, Lit("\""), Open(1), Rep("\"", TRUE, 1),
      Close(1), Lit("\"")>>

\* actor\s+(?:"([^"]+)"|(\S+))(?:\s+as\s+(\S+))?(?:\s+<<(\w+)>>)?
ActorPattern ==
    <<Lit("actor"), Spaces1>> \o NameAndAlias
      \o <<Opt(<<Spaces1, Lit("<<"), Open(4), Rep(WordChars, FALSE, 1),
                 Close(4), Lit(">>")>>)>>

\* usecase\s+(?:"([^"]+)"|(\S+))(?:\s+as\s+(\S+))?
UsecasePattern == <<Lit("usecase"), Spaces1>> \o NameAndAlias

\* (\S+)\s*(-->|\.\.>|--)\s*(\S+)(?:\s*:\s*(.*))?
UsecaseRelationPattern ==
    Word(1) \o <<Spaces0, Open(2),
      Alt(<<<<Lit("-->")>>, <<Lit("..>")>>, <<Lit("--")>>>>), Close(2),
      Spaces0>> \o Word(3)
      \o <<Opt(<<Spaces0, Lit(":"), Spaces0, Open(4), AnyText, Close(4)>>)>>

\* the locals of _parse_usecase before the loop
UsecaseInit ==
    [actors |-> <<>>, usecases |-> <<>>, relations |-> <<>>,
     system_name |-> None]

\* if line.startswith('rectangle '): ...
UsecaseRectangle(st, line) ==
    LET m == ReMatch(RectanglePattern, line)
    IN  IF StartsWith(line, "rectangle ") /\ m.ok
        THEN [st EXCEPT !.system_name = m.groups[1]]
        ELSE st

\* the if/elif chain that follows it
UsecaseLine(st, line) ==
    LET am == ReMatch(ActorPattern, line)
        um == ReMatch(UsecasePattern, line)
        rm == ReMatch(UsecaseRelationPattern, line)
    IN  IF StartsWith(line, "actor ")
        THEN IF am.ok
             THEN LET name == OrElse(am.groups[1], am.groups[2])
                  IN  [st EXCEPT !.actors = Append(@,
                          [name |-> name, alias |-> GroupOr(am, 3, name),
                           is_secondary |-> am.groups[4] = "secondary"])]
             ELSE st
        ELSE IF \/ StartsWith(line, "usecase ")
                \/ StartsWith(line, "(") /\ EndsWith(line, ")")
        THEN IF StartsWith(line, "usecase ")
             THEN IF um.ok
                  THEN LET name == Replace(OrElse(um.groups[1], um.groups[2]),
                                           "\\n", "__NEWLINE__")
                       IN  [st EXCEPT !.usecases = Append(@,
                               [name |-> name, alias |-> GroupOr(um, 3, name)])]
                  ELSE st
             ELSE LET name == Replace(StripChars(line, "()"),
                                      "\\n", "__NEWLINE__")
                  IN  [st EXCEPT !.usecases =
                          Append(@, [name |-> name, alias |-> name])]
        ELSE IF \/ Contains(line, "-->")
                \/ Contains(line, "..|>")
                \/ Contains(line, "--")
        THEN IF rm.ok
             THEN LET label == GroupOr(rm, 4, "")
                      dotted == \/ Contains(rm.groups[2], "..|>")
                                \/ Contains(rm.groups[2], "..>")
                  IN  [st EXCEPT !.relations = Append(@,
                          [source |-> rm.groups[1], target |-> rm.groups[3],
                           type |-> IF dotted
                                    THEN IF Contains(Lower(label), "extend")
                                         THEN "extends" ELSE "include"
                                    ELSE "association",
                           label |-> label])]
             ELSE st
        ELSE st

\* one iteration of the loop of _parse_usecase
UsecaseStep(st, line) == UsecaseLine(UsecaseRectangle(st, line), line)

\* the dict _parse_usecase returns
UsecaseData(st) ==
    [type |-> "usecase", actors |-> st.actors, usecases |-> st.usecases,
     relations |-> st.relations, system_name |-> st.system_name]

\* the loop of _parse_usecase over the first n lines
RECURSIVE UsecaseLoop(_, _)
UsecaseLoop(ls, n) ==
    IF n = 0 THEN UsecaseInit ELSE UsecaseStep(UsecaseLoop(ls, n - 1), ls[n])

_parse_usecase(ls) == UsecaseData(UsecaseLoop(ls, Len(ls)))

---------------------------------------------------------------------------
(* DrawIOGenerator.  A generator g is a record with the object's cell_id   *)
(* and elements, and the cells appended so far to the <root> element of    *)
(* the document under construction.                                        *)

\* a Python dict as a function: d[k] = v and d.get(k)
EmptyDict == <<>>
Put(d, k, v) == [x \in DOMAIN d \cup {k} |-> IF x = k THEN v ELSE d[x]]
Get(d, k) == IF k \in DOMAIN d THEN d[k] ELSE None
Has(d, k) == k \in DOMAIN d

Min(S) == CHOOSE x \in S : \A y \in S : x <= y
Max(S) == CHOOSE x \in S : \A y \in S : x >= y

\* DrawIOGenerator.__init__
GenInit == [cell_id |-> 2, elements |-> EmptyDict]

\* create_base_structure: a new document with its two root cells
create_base_structure(g, diagram_name) ==
    [cell_id |-> g.cell_id, elements |-> g.elements, name |-> diagram_name,
     root |-> <<[id |-> "0"], [id |-> "1", parent |-> "0"]>>]

\* f"{prefix}_{self.cell_id}"
CellId(prefix, g) == prefix \o "_" \o ToString(g.cell_id)

\* a vertex cell and an edge cell between two points, as the add_* methods
\* and the generators build them
Vertex(id, value, style, x, y, width, height) ==
    [id |-> id, value |-> value, style |-> style, vertex |-> "1",
     parent |-> "1",
     geometry |-> [x |-> x, y |-> y, width |-> width, height |-> height]]

PointEdge(id, value, style, sx, sy, tx, ty) ==
    [id |-> id, value |-> value, style |-> style, edge |-> "1",
     parent |-> "1",
     geometry |-> [relative |-> "1", sourcePoint |-> [x |-> sx, y |-> sy],
                   targetPoint |-> [x |-> tx, y |-> ty]]]

\* a cell added without taking the current cell id
AddCellKeepsCounter(g, cell) == [g EXCEPT !.root = Append(@, cell)]

\* ET.SubElement(root, 'mxCell', ...), taking the current cell id
AddCell(g, cell) == [g EXCEPT !.cell_id = @ + 1, !.root = Append(@, cell)]

\* add_rectangle and add_ellipse: the new cell's id is CellId("elem", g)
add_rectangle(g, label, x, y, width, height, style) ==
    AddCell(g, Vertex(CellId("elem", g), label, style, x, y, width, height))

add_ellipse(g, label, x, y, width, height, style) ==
    AddCell(g, Vertex(CellId("elem", g), label, style, x, y, width, height))

ActorStyle ==
    "shape=umlActor;verticalLabelPosition=bottom;verticalAlign=top;html=1;"

add_actor(g, label, x, y) == add_rectangle(g, label, x, y, 30, 60, ActorStyle)

\* add_secondary_actor: the frame, then the actor whose id is returned
add_secondary_actor(g, label, x, y) ==
    add_rectangle(
        add_rectangle(g, "", x - 10, y, 50, 80,
            "rounded=0;whiteSpace=wrap;html=1;fillColor=none;strokeColor=#666666;strokeWidth=1;"),
        label, x, y + 10, 30, 60, ActorStyle)

EdgePrefix == "edgeStyle=orthogonalEdgeStyle;rounded=0;html=1;"

add_arrow(g, source_id, target_id, label, style) ==
    AddCell(g, [id |-> CellId("arrow", g), value |-> label,
                style |-> EdgePrefix \o style, edge |-> "1", parent |-> "1",
                source |-> source_id, target |-> target_id,
                geometry |-> [relative |-> "1"]])

add_arrow_with_points(g, label, source_x, source_y, target_x, target_y, style) ==
    AddCell(g, PointEdge(CellId("arrow", g), label, EdgePrefix \o style,
                         source_x, source_y, target_x, target_y))

\* the separator and the label of sections[i+1], for i from 1 on
RECURSIVE FragmentSections(_, _, _, _, _, _)
FragmentSections(g, i, x, width, sections, y_positions) ==
    IF i + 1 > Len(sections) THEN g
    ELSE IF i < Len(y_positions)
    THEN LET sep_y == y_positions[i + 1]
             section == sections[i + 1]
             g1 == AddCell(g, PointEdge(CellId("sep", g), "",
                     "endArrow=none;dashed=1;html=1;dashPattern=8 8;strokeColor=#666666;",
                     x, sep_y, x + width, sep_y))
             g2 == IF Truthy(section.label)
                   THEN AddCell(g1, Vertex(CellId("section_label", g1),
                            "[" \o section.label \o "]",
                            "text;html=1;strokeColor=none;fillColor=none;align=left;verticalAlign=middle;fontSize=10;",
                            x + 5, sep_y + 2, 150, 20))
                   ELSE g1
         IN  FragmentSections(g2, i + 1, x, width, sections, y_positions)
    ELSE FragmentSections(g, i + 1, x, width, sections, y_positions)

add_fragment(g, fragment_type, x, y, width, height, sections, y_positions) ==
    LET g1 == AddCell(g, Vertex(CellId("fragment", g),
                  "<b>" \o fragment_type \o "</b>",
                  "rounded=0;whiteSpace=wrap;html=1;fillColor=none;strokeColor=#666666;dashed=0;verticalAlign=top;align=left;spacingLeft=5;spacingTop=2;",
                  x, y, width, height))
        g2 == AddCell(g1, Vertex(CellId("label", g1), fragment_type,
                  "rounded=0;whiteSpace=wrap;html=1;fillColor=#f5f5f5;strokeColor=#666666;fontStyle=1;fontSize=10;",
                  x, y, 40, 20))
    IN  FragmentSections(g2, 1, x, width, sections, y_positions)

---------------------------------------------------------------------------
(* DrawIOGenerator.generate_sequence_diagram.                              *)

\* the layout constants of generate_sequence_diagram
SeqXStart == 50
SeqXSpacing == 200
SeqYStart == 50
ParticipantWidth == 140
ParticipantHeight == 50
SeqYSpacing == 50
MessagesStartY == SeqYStart + ParticipantHeight + 80

\* the endpoints of the messages: what participant_names holds
EndpointNames(messages) ==
    {messages[i].source : i \in DOMAIN messages}
        \cup {messages[i].target : i \in DOMAIN messages}

\* the orders in which iterating over a set can give its elements: the
\* order of a Python set of strings changes from one process to the next
Orders(S) ==
    {q \in [1..Cardinality(S) -> S] : \A x \in S : \E i \in DOMAIN q : q[i] = x}

\* the participants drawn if the endpoints of the messages were added to
\* those declared
DrawnParticipantsAndEndpoints(seqdata, order) ==
    LET declared == {seqdata.participants[i].alias :
                        i \in DOMAIN seqdata.participants}
        names == SelectSeq(
                     CHOOSE q \in Orders(EndpointNames(seqdata.messages)) : TRUE,
                     LAMBDA name : name \notin declared)
    IN  IF seqdata.participants = <<>>
        THEN [i \in DOMAIN order |->
                 [name |-> order[i], alias |-> order[i], type |-> "participant"]]
        ELSE seqdata.participants
                 \o [i \in DOMAIN names |->
                        [name |-> names[i], alias |-> names[i],
                         type |-> "participant"]]

\* the participants the generator draws: those declared or, if none is,
\* the endpoints of the messages in the order the set gives them
DrawnParticipants(seqdata, order) ==
    IF seqdata.participants # <<>> THEN seqdata.participants
    ELSE [i \in DOMAIN order |->
             [name |-> order[i], alias |-> order[i], type |-> "participant"]]

\* x + participant_width // 2 for the participant of index i (from 0)
CenterX(i) == SeqXStart + i * SeqXSpacing + ParticipantWidth \div 2

\* where the lifeline of a participant of this type starts
LifelineTop(ptype) ==
    IF ptype = "actor" THEN SeqYStart + 60
    ELSE IF ptype = "database" THEN SeqYStart + ParticipantHeight + 10
    ELSE SeqYStart + ParticipantHeight

\* the loop that places the participants, from the one of index i (from 0)
\* on; st carries the generator and participant_positions
RECURSIVE PlaceParticipants(_, _, _, _)
PlaceParticipants(st, participants, i, lifeline_end_y) ==
    IF i >= Len(participants) THEN st
    ELSE LET participant == participants[i + 1]
             x == SeqXStart + i * SeqXSpacing
             name == participant.name
             ptype == participant.type
             g == st.g
             elem_id == CellId("elem", g)
             g1 == IF ptype = "actor"
                   THEN add_actor(g, name, x + ParticipantWidth \div 2 - 15,
                                  SeqYStart)
                   ELSE IF ptype = "database"
                   THEN add_rectangle(g, name, x, SeqYStart, ParticipantWidth,
                            ParticipantHeight + 10,
                            "shape=cylinder3;whiteSpace=wrap;html=1;boundedLbl=1;backgroundOutline=1;size=15;fillColor=#dae8fc;strokeColor=#6c8ebf;")
                   ELSE add_rectangle(g, name, x, SeqYStart, ParticipantWidth,
                            ParticipantHeight,
                            "rounded=0;whiteSpace=wrap;html=1;fillColor=#dae8fc;strokeColor=#6c8ebf;")
             g2 == AddCell(g1, PointEdge(CellId("lifeline", g1), "",
                      "endArrow=none;dashed=1;html=1;dashPattern=1 4;strokeWidth=1;strokeColor=#666666;",
                      CenterX(i), LifelineTop(ptype), CenterX(i), lifeline_end_y))
         IN  PlaceParticipants(
                 [g |-> [g2 EXCEPT !.elements = Put(@, participant.alias, elem_id)],
                  participant_positions |->
                      Put(st.participant_positions, participant.alias,
                          <<CenterX(i), LifelineTop(ptype)>>)],
                 participants, i + 1, lifeline_end_y)

\* message_y_positions[i] for i from 0
MessageY(i) == MessagesStartY + i * SeqYSpacing

\* section_y_positions of a fragment whose box starts at frag_y
RECURSIVE SectionYs(_, _, _)
SectionYs(sections, i, n) ==
    IF i > Len(sections) THEN <<>>
    ELSE (IF sections[i].start_index < n
          THEN <<MessageY(sections[i].start_index) - 10>>
          ELSE <<>>) \o SectionYs(sections, i + 1, n)

\* the loop over the fragments, from fragments[i] on; n = len(messages)
RECURSIVE PlaceFragments(_, _, _, _, _, _)
PlaceFragments(g, fragments, i, n, fragment_x, fragment_width) ==
    IF i > Len(fragments) THEN g
    ELSE LET fragment == fragments[i]
             start_idx == fragment.start_index
             end_idx == fragment.end_index
             frag_y == MessageY(start_idx) - 25
             frag_height == IF end_idx < n
                            THEN MessageY(end_idx) - frag_y + 25
                            ELSE (n - start_idx) * SeqYSpacing + 25
             section_y_positions ==
                 <<frag_y>> \o SectionYs(fragment.sections, 2, n)
         IN  PlaceFragments(
                 IF start_idx < n
                 THEN add_fragment(g, fragment.type, fragment_x, frag_y,
                          fragment_width, frag_height, fragment.sections,
                          section_y_positions)
                 ELSE g,
                 fragments, i + 1, n, fragment_x, fragment_width)

\* the style of the arrow of a message
MessageStyle(msg) ==
    IF msg.is_return
    THEN "dashed=1;html=1;endArrow=open;endFill=0;strokeColor=#666666;"
    ELSE IF msg.is_async THEN "html=1;endArrow=async;endFill=0;"
    ELSE "html=1;endArrow=block;endFill=1;"

\* the loop over the messages, from the one of index i (from 0) on
RECURSIVE PlaceMessages(_, _, _, _)
PlaceMessages(g, messages, i, participant_positions) ==
    IF i >= Len(messages) THEN g
    ELSE LET msg == messages[i + 1]
             source_pos == participant_positions[msg.source]
             target_pos == participant_positions[msg.target]
         IN  PlaceMessages(
                 IF /\ Has(participant_positions, msg.source)
                    /\ Has(participant_positions, msg.target)
                 THEN add_arrow_with_points(g, msg.label, source_pos[1],
                          MessageY(i), target_pos[1], MessageY(i),
                          MessageStyle(msg))
                 ELSE g,
                 messages, i + 1, participant_positions)

\* generate_sequence_diagram; order is the order in which the set of the
\* inferred participant names is iterated
generate_sequence_diagram(g, seqdata, order) ==
    LET participants == DrawnParticipants(seqdata, order)
        messages == seqdata.messages
        n == Len(messages)
        lifeline_end_y == MessagesStartY + n * SeqYSpacing + 50
        placed == PlaceParticipants(
                      [g |-> create_base_structure(g, "Sequence Diagram"),
                       participant_positions |-> EmptyDict],
                      participants, 0, lifeline_end_y)
        xs == {CenterX(i) : i \in 0..(Len(participants) - 1)}
        g1 == IF participants # <<>>
              THEN PlaceFragments(placed.g, seqdata.fragments, 1, n,
                       Min(xs) - 60, Max(xs) - Min(xs) + 120)
              ELSE placed.g
    IN  PlaceMessages(g1, messages, 0, placed.participant_positions)

---------------------------------------------------------------------------
(* DrawIOGenerator.add_class_box and generate_class_diagram.               *)

MaxOf(a, b) == IF a >= b THEN a ELSE b
MinOf(a, b) == IF a <= b THEN a ELSE b

\* the longest of the strings of q, at least n
RECURSIVE MaxLen(_, _)
MaxLen(q, n) == IF q = <<>> THEN n ELSE MaxLen(Tail(q), MaxOf(n, Len(Head(q))))

\* one <p> per entry, or the placeholder paragraph if there is none
RECURSIVE Paragraphs(_)
Paragraphs(q) ==
    IF q = <<>> THEN ""
    ELSE "<p style=\"margin:0px;margin-left:4px;\">" \o Head(q) \o "</p>"
             \o Paragraphs(Tail(q))

Compartment(q) ==
    IF q # <<>> THEN Paragraphs(q) ELSE "<p style=\"margin:0px;\">&nbsp;</p>"

\* add_class_box: the new cell's id is CellId("class", g)
add_class_box(g, cls, x, y) ==
    LET name == cls.name
        class_type == cls.type
        attributes == cls.attributes
        methods == cls.methods
        max_text_len == MaxLen(methods, MaxLen(attributes, Len(name)))
        width == MaxOf(160, MinOf(320, max_text_len * 7 + 20))
        title_lines == IF class_type \in {"interface", "enum"} THEN 2 ELSE 1
        title_height == title_lines * 20 + 10
        attr_height == MaxOf(20, Len(attributes) * 18 + 10)
        method_height == MaxOf(20, Len(methods) * 18 + 10)
        total_height == title_height + attr_height + method_height
        bold == "<p style=\"margin:0px;text-align:center;\"><b>" \o name
                    \o "</b></p>"
        title ==
            IF class_type = "interface"
            THEN "<p style=\"margin:0px;text-align:center;\"><i>&lt;&lt;interface&gt;&gt;</i></p>"
                     \o bold
            ELSE IF class_type = "enum"
            THEN "<p style=\"margin:0px;text-align:center;\">&lt;&lt;enumeration&gt;&gt;</p>"
                     \o bold
            ELSE bold
        fill_color == IF class_type = "interface" THEN "#fff2cc"
                      ELSE IF class_type = "enum" THEN "#e1d5e7"
                      ELSE "#dae8fc"
        stroke_color == IF class_type = "interface" THEN "#d6b656"
                        ELSE IF class_type = "enum" THEN "#9673a6"
                        ELSE "#6c8ebf"
        html_content == title \o "<hr size=\"1\"/>" \o Compartment(attributes)
                            \o "<hr size=\"1\"/>" \o Compartment(methods)
        style == "verticalAlign=top;align=left;overflow=fill;html=1;rounded=0;shadow=0;comic=0;labelBackgroundColor=none;strokeColor="
                     \o stroke_color \o ";strokeWidth=1;fillColor="
                     \o fill_color \o ";"
    IN  AddCell(g, Vertex(CellId("class", g), html_content, style, x, y,
                          width, total_height))

\* the loop over the classes, from the one of index i (from 0) on; st
\* carries the generator and class_positions
RECURSIVE PlaceClasses(_, _, _)
PlaceClasses(st, classes, i) ==
    IF i >= Len(classes) THEN st
    ELSE LET cls == classes[i + 1]
             x == 50 + (i % 3) * 320
             y == 50 + (i \div 3) * 250
             elem_id == CellId("class", st.g)
             g1 == add_class_box(st.g, cls, x, y)
         IN  PlaceClasses(
                 [g |-> [g1 EXCEPT !.elements = Put(@, cls.name, elem_id)],
                  class_positions |-> Put(st.class_positions, cls.name, elem_id)],
                 classes, i + 1)

\* the style of the arrow of a class relation
ClassRelationStyle(rtype) ==
    IF rtype = "inheritance" THEN "endArrow=block;endFill=0;endSize=12;"
    ELSE IF rtype = "implementation"
    THEN "dashed=1;endArrow=block;endFill=0;endSize=12;"
    ELSE IF rtype = "composition"
    THEN "endArrow=diamondThin;endFill=1;endSize=12;"
    ELSE IF rtype = "aggregation"
    THEN "endArrow=diamondThin;endFill=0;endSize=12;"
    ELSE "endArrow=none;endFill=0;"

\* the loop over the relations of a class diagram if it looked up the
\* source of a relation only
RECURSIVE PlaceSourcedClassRelations(_, _, _, _)
PlaceSourcedClassRelations(g, relations, i, class_positions) ==
    IF i > Len(relations) THEN g
    ELSE LET rel == relations[i]
             source_id == Get(class_positions, rel.source)
             target_id == Get(class_positions, rel.target)
         IN  PlaceSourcedClassRelations(
                 IF Truthy(source_id)
                 THEN add_arrow(g, source_id, target_id, rel.label,
                                ClassRelationStyle(rel.type))
                 ELSE g,
                 relations, i + 1, class_positions)

\* the loop over the relations of a class diagram, from relations[i] on
RECURSIVE PlaceClassRelations(_, _, _, _)
PlaceClassRelations(g, relations, i, class_positions) ==
    IF i > Len(relations) THEN g
    ELSE LET rel == relations[i]
             source_id == Get(class_positions, rel.source)
             target_id == Get(class_positions, rel.target)
         IN  PlaceClassRelations(
                 IF Truthy(source_id) /\ Truthy(target_id)
                 THEN add_arrow(g, source_id, target_id, rel.label,
                                ClassRelationStyle(rel.type))
                 ELSE g,
                 relations, i + 1, class_positions)

generate_class_diagram(g, clsdata) ==
    LET placed == PlaceClasses(
                      [g |-> create_base_structure(g, "Class Diagram"),
                       class_positions |-> EmptyDict],
                      clsdata.classes, 0)
    IN  PlaceClassRelations(placed.g, clsdata.relations, 1,
                            placed.class_positions)

---------------------------------------------------------------------------
(* DrawIOGenerator.generate_usecase_diagram.                               *)

\* [a for a in actors if a.get("is_secondary")] (or not, if ~secondary)
RECURSIVE ActorsOf(_, _)
ActorsOf(actors, secondary) ==
    IF actors = <<>> THEN <<>>
    ELSE (IF Head(actors).is_secondary = secondary
          THEN <<Head(actors)>> ELSE <<>>) \o ActorsOf(Tail(actors), secondary)

UsecaseYStart == 100
UsecaseYSpacing == 90
UsecaseXStart == 250

\* the loop over the primary (secondary) actors, from index i (from 0) on;
\* st carries the generator and element_ids
RECURSIVE PlaceActors(_, _, _, _)
PlaceActors(st, actors, i, secondary) ==
    IF i >= Len(actors) THEN st
    ELSE LET actor == actors[i + 1]
             y == UsecaseYStart + i * UsecaseYSpacing
             g1 == IF secondary
                   THEN add_secondary_actor(st.g, actor.name,
                                            UsecaseXStart + 200, y)
                   ELSE add_actor(st.g, actor.name, 50, y)
             elem_id == "elem_" \o ToString(g1.cell_id - 1)
         IN  PlaceActors(
                 [g |-> g1, element_ids |-> Put(st.element_ids, actor.alias, elem_id)],
                 actors, i + 1, secondary)

\* the loop over the use cases, from index i (from 0) on
RECURSIVE PlaceUsecases(_, _, _)
PlaceUsecases(st, usecases, i) ==
    IF i >= Len(usecases) THEN st
    ELSE LET usecase == usecases[i + 1]
             y == UsecaseYStart + i * UsecaseYSpacing
             elem_id == CellId("elem", st.g)
             g1 == add_ellipse(st.g, usecase.name, UsecaseXStart, y, 140, 70,
                       "ellipse;whiteSpace=wrap;html=1;fillColor=#d5e8d4;strokeColor=#82b366;")
         IN  PlaceUsecases(
                 [g |-> g1, element_ids |-> Put(st.element_ids, usecase.alias, elem_id)],
                 usecases, i + 1)

\* the loop over the relations of a use-case diagram, from relations[i] on
RECURSIVE PlaceUsecaseRelations(_, _, _, _)
PlaceUsecaseRelations(g, relations, i, element_ids) ==
    IF i > Len(relations) THEN g
    ELSE LET rel == relations[i]
             source_id == Get(element_ids, rel.source)
             target_id == Get(element_ids, rel.target)
             dashed == rel.type \in {"extends", "include"}
         IN  PlaceUsecaseRelations(
                 IF Truthy(source_id) /\ Truthy(target_id)
                 THEN add_arrow(g, source_id, target_id,
                          IF dashed THEN "<<" \o rel.type \o ">>" ELSE rel.label,
                          IF dashed THEN "dashed=1;endArrow=open;endFill=0;"
                          ELSE "endArrow=none;endFill=0;")
                 ELSE g,
                 relations, i + 1, element_ids)

generate_usecase_diagram(g, ucdata) ==
    LET usecases == ucdata.usecases
        g0 == create_base_structure(g, "Use Case Diagram")
        g1 == IF Truthy(ucdata.system_name) /\ usecases # <<>>
              THEN add_rectangle(g0, ucdata.system_name, UsecaseXStart - 30,
                       UsecaseYStart - 50, 200,
                       Len(usecases) * UsecaseYSpacing + 50,
                       "rounded=0;whiteSpace=wrap;html=1;fillColor=none;strokeColor=#000000;verticalAlign=top;fontStyle=1;")
              ELSE g0
        primary == PlaceActors([g |-> g1, element_ids |-> EmptyDict],
                               ActorsOf(ucdata.actors, FALSE), 0, FALSE)
        secondary == PlaceActors(primary, ActorsOf(ucdata.actors, TRUE), 0, TRUE)
        placed == PlaceUsecases(secondary, usecases, 0)
    IN  PlaceUsecaseRelations(placed.g, ucdata.relations, 1, placed.element_ids)

---------------------------------------------------------------------------
(* DrawIOGenerator.generate_activity_diagram.                              *)

ActXCenter == 400
ActYStart == 100
ActYSpacing == 80
SwimlaneWidth == 300

\* activity.get(key, default)
Field(rec, key, default) == IF key \in DOMAIN rec THEN rec[key] ELSE default

\* the loop that draws the swim-lanes, from the one of index i (from 0) on;
\* st carries the generator and swimlane_x
RECURSIVE PlaceSwimlanes(_, _, _, _)
PlaceSwimlanes(st, swimlanes, i, total_height) ==
    IF i >= Len(swimlanes) THEN st
    ELSE LET lane == swimlanes[i + 1]
             lane_x == 50 + i * SwimlaneWidth
         IN  PlaceSwimlanes(
                 [g |-> add_rectangle(st.g, lane, lane_x, 50, SwimlaneWidth,
                            total_height,
                            "swimlane;whiteSpace=wrap;html=1;fillColor=#f5f5f5;strokeColor=#666666;fontStyle=1;startSize=30;horizontal=1;"),
                  swimlane_x |-> Put(st.swimlane_x, lane,
                                     lane_x + SwimlaneWidth \div 2)],
                 swimlanes, i + 1, total_height)

\* get_base_x
get_base_x(activity, swimlane_x) ==
    LET swimlane == activity.swimlane
    IN  IF Truthy(swimlane) /\ Has(swimlane_x, swimlane)
        THEN swimlane_x[swimlane]
        ELSE ActXCenter

\* the cell of one activity at (x, y_pos), and how far y_pos advances
ActivityShape(g, activity, x, y_pos) ==
    LET act_type == activity.type
        name == activity.name
        dec_width == MaxOf(100, Len(name) * 6 + 20)
        act_width == MaxOf(140, MinOf(220, Len(name) * 7 + 20))
        bar == "rounded=0;whiteSpace=wrap;html=1;fillColor=#000000;strokeColor=#000000;"
        rhombus == "rhombus;whiteSpace=wrap;html=1;fillColor=#fff2cc;strokeColor=#d6b656;"
    IN  CASE act_type = "start" ->
               [g |-> add_ellipse(g, "", x - 15, y_pos, 30, 30,
                          "ellipse;whiteSpace=wrap;html=1;aspect=fixed;fillColor=#000000;"),
                dy |-> 50]
          [] act_type = "end" ->
               [g |-> add_ellipse(g, "", x - 15, y_pos, 30, 30,
                          "ellipse;whiteSpace=wrap;html=1;aspect=fixed;fillColor=#000000;strokeColor=#000000;strokeWidth=3;"),
                dy |-> 0]
          [] act_type = "decision" ->
               [g |-> add_rectangle(g, name, x - dec_width \div 2, y_pos,
                          dec_width, 60, rhombus),
                dy |-> ActYSpacing]
          [] act_type = "merge" ->
               [g |-> add_rectangle(g, "", x - 15, y_pos, 30, 30, rhombus),
                dy |-> 50]
          [] act_type \in {"fork", "join"} ->
               [g |-> add_rectangle(g, "", x - 80, y_pos, 160, 8, bar),
                dy |-> 50]
          [] OTHER ->
               [g |-> add_rectangle(g, name, x - act_width \div 2, y_pos,
                          act_width, 50,
                          "rounded=1;whiteSpace=wrap;html=1;fillColor=#dae8fc;strokeColor=#6c8ebf;"),
                dy |-> ActYSpacing]

\* the loop that places the activities, from activities[i] on; st carries
\* the generator, y_pos, visited, element_positions and element_ids
RECURSIVE PlaceActivities(_, _, _, _)
PlaceActivities(st, activities, i, swimlane_x) ==
    IF i > Len(activities) THEN st
    ELSE LET activity == activities[i]
             act_id == activity.id
             base_x == get_base_x(activity, swimlane_x)
             x == IF Field(activity, "branch_side", "center") = "right"
                  THEN base_x + 60 ELSE base_x
             shape == ActivityShape(st.g, activity, x, st.y_pos)
         IN  PlaceActivities(
                 IF act_id \in st.visited THEN st
                 ELSE [g |-> shape.g,
                       y_pos |-> st.y_pos + shape.dy,
                       visited |-> st.visited \cup {act_id},
                       element_positions |->
                           Put(st.element_positions, act_id, <<x, st.y_pos>>),
                       element_ids |->
                           Put(st.element_ids, act_id, CellId("elem", st.g))],
                 activities, i + 1, swimlane_x)

\* the loop over the transitions, from transitions[i] on
RECURSIVE PlaceTransitions(_, _, _, _)
PlaceTransitions(g, transitions, i, element_ids) ==
    IF i > Len(transitions) THEN g
    ELSE LET trans == transitions[i]
             source_id == Get(element_ids, trans.source)
             target_id == Get(element_ids, trans.target)
         IN  PlaceTransitions(
                 IF Truthy(source_id) /\ Truthy(target_id)
                 THEN add_arrow(g, source_id, target_id, trans.label,
                          "endArrow=block;endFill=1;rounded=1;edgeStyle=orthogonalEdgeStyle;")
                 ELSE g,
                 transitions, i + 1, element_ids)

\* the layout of generate_activity_diagram: the state of its placing loop
\* after the last activity
ActivityLayout(g, actdata) ==
    LET activities == actdata.activities
        swimlanes == actdata.swimlanes
        lanes == PlaceSwimlanes(
                     [g |-> create_base_structure(g, "Activity Diagram"),
                      swimlane_x |-> EmptyDict],
                     swimlanes, 0, ActYStart + Len(activities) * ActYSpacing + 200)
    IN  PlaceActivities(
            [g |-> lanes.g,
             y_pos |-> IF swimlanes # <<>> THEN ActYStart + 30 ELSE ActYStart,
             visited |-> {}, element_positions |-> EmptyDict,
             element_ids |-> EmptyDict],
            activities, 1, lanes.swimlane_x)

generate_activity_diagram(g, actdata) ==
    LET placed == ActivityLayout(g, actdata)
    IN  PlaceTransitions(placed.g, actdata.transitions, 1, placed.element_ids)

---------------------------------------------------------------------------
(* PlantUMLParser.parse and convert_plantuml_to_drawio on a whole text.    *)

SupportedTypes == {"sequence", "class", "usecase", "activity"}

\* parse(): the model, or the exception it raises
parse(type, ls) ==
    CASE type = "sequence" -> [ok |-> TRUE, data |-> _parse_sequence(ls)]
      [] type = "class" -> [ok |-> TRUE, data |-> _parse_class(ls)]
      [] type = "usecase" -> [ok |-> TRUE, data |-> _parse_usecase(ls)]
      [] type = "activity" -> [ok |-> TRUE, data |-> _parse_activity(ls)]
      [] OTHER -> [ok |-> FALSE, raised |-> "ValueError"]

\* the texts converted as a whole: a start marker or none, then some of
\* these lines
Markers == {"", "@startuml", "@STARTUML"}

BodyLines ==
    {"usecase UC1", "actor User", "User --> UC1", "class A", "class B",
     "A <|-- B", "participant A", "start", "stop", "state S1",
     "component C1", "A -> A : x\fy"}

TextOf(marker, body) ==
    Join((IF marker = "" THEN <<>> ELSE <<marker>>) \o body, "\n")

Texts == {TextOf(marker, body) :
             marker \in Markers, body \in SeqsUpTo(BodyLines, MaxBody)}

\* the document a generator g holds, and the object without it
DocOf(g) == [name |-> g.name, root |-> g.root]
ObjectOf(g) == [cell_id |-> g.cell_id, elements |-> g.elements]

\* the orders generate_sequence_diagram may iterate its set in
SetOrders(seqdata) ==
    IF seqdata.participants # <<>> THEN {<<>>}
    ELSE Orders(EndpointNames(seqdata.messages))

\* a constructor that keeps lines and diagram_type in the class, for every
\* instance, not in the instance
ConstructShared ==
    /\ pc = "convert"
    /\ lines' = StrippedLines(content)
    /\ diagram_type' = _detect_diagram_type(content)
    /\ pc' = "constructed"
    /\ peer' = IF peer.id = 0 THEN peer
               ELSE [peer EXCEPT !.lines = StrippedLines(content),
                                 !.diagram_type =
                                     _detect_diagram_type(content)]
    /\ UNCHANGED <<read, content, seqp, clsp, ucp, actp, data, gen, mxfile, saved,
                   result, first_doc>>

\* parser = PlantUMLParser(content)
Construct ==
    /\ pc = "convert"
    /\ lines' = StrippedLines(content)
    /\ diagram_type' = _detect_diagram_type(content)
    /\ pc' = "constructed"
    /\ UNCHANGED <<read, content, seqp, clsp, ucp, actp, data, gen, mxfile, saved,
                   result, first_doc, peer>>

\* if parser.diagram_type == DiagramType.UNKNOWN: return False
ReturnUnknown ==
    /\ pc = "constructed"
    /\ diagram_type = "unknown"
    /\ result' = FALSE
    /\ pc' = "done"
    /\ UNCHANGED <<content, lines, read, diagram_type, seqp, clsp, ucp, actp, data,
                   gen, mxfile, saved, first_doc, peer>>

\* data = parser.parse(), for each of the four parsers
ParseSequence ==
    /\ pc = "constructed"
    /\ diagram_type = "sequence"
    /\ seqp' = SeqLoop(lines, Len(lines))
    /\ data' = parse(diagram_type, lines).data
    /\ pc' = "parsed"
    /\ UNCHANGED <<content, lines, read, diagram_type, clsp, ucp, actp, gen, mxfile,
                   saved, result, first_doc, peer>>

ParseClass ==
    /\ pc = "constructed"
    /\ diagram_type = "class"
    /\ clsp' = ClassLoop(lines, Len(lines))
    /\ data' = parse(diagram_type, lines).data
    /\ pc' = "parsed"
    /\ UNCHANGED <<content, lines, read, diagram_type, seqp, ucp, actp, gen, mxfile,
                   saved, result, first_doc, peer>>

ParseUsecase ==
    /\ pc = "constructed"
    /\ diagram_type = "usecase"
    /\ ucp' = UsecaseLoop(lines, Len(lines))
    /\ data' = parse(diagram_type, lines).data
    /\ pc' = "parsed"
    /\ UNCHANGED <<content, lines, read, diagram_type, seqp, clsp, actp, gen, mxfile,
                   saved, result, first_doc, peer>>

ParseActivity ==
    /\ pc = "constructed"
    /\ diagram_type = "activity"
    /\ actp' = ActLoop(lines, Len(lines))
    /\ data' = parse(diagram_type, lines).data
    /\ pc' = "parsed"
    /\ UNCHANGED <<content, lines, read, diagram_type, seqp, clsp, ucp, gen, mxfile,
                   saved, result, first_doc, peer>>

\* parse() raises ValueError, the except clause returns False
ParseRaises ==
    /\ pc = "constructed"
    /\ diagram_type # "unknown"
    /\ ~parse(diagram_type, lines).ok
    /\ result' = FALSE
    /\ pc' = "done"
    /\ UNCHANGED <<content, lines, read, diagram_type, seqp, clsp, ucp, actp, data,
                   gen, mxfile, saved, first_doc, peer>>

\* a generation that keeps the participants it infers in the model
GeneratedStoresInferred(g) ==
    /\ gen' = ObjectOf(g)
    /\ mxfile' = DocOf(g)
    /\ pc' = "generated"
    /\ data' = IF data.type = "sequence" /\ data.participants = <<>>
               THEN [data EXCEPT !.participants =
                        DrawnParticipants(data,
                            CHOOSE order \in SetOrders(data) : TRUE)]
               ELSE data
    /\ UNCHANGED <<content, lines, read, diagram_type, seqp, clsp, ucp, actp,
                   saved, result, first_doc, peer>>

\* generator = DrawIOGenerator(); mxfile = generator.generate_*(data)
Generated(g) ==
    /\ gen' = ObjectOf(g)
    /\ mxfile' = DocOf(g)
    /\ pc' = "generated"
    /\ UNCHANGED <<content, lines, read, diagram_type, seqp, clsp, ucp, actp, data,
                   saved, result, first_doc, peer>>

GenerateSequence ==
    /\ pc = "parsed"
    /\ diagram_type = "sequence"
    /\ \E order \in SetOrders(data) :
           Generated(generate_sequence_diagram(GenInit, data, order))

GenerateClass ==
    /\ pc = "parsed"
    /\ diagram_type = "class"
    /\ Generated(generate_class_diagram(GenInit, data))

GenerateUsecase ==
    /\ pc = "parsed"
    /\ diagram_type = "usecase"
    /\ Generated(generate_usecase_diagram(GenInit, data))

GenerateActivity ==
    /\ pc = "parsed"
    /\ diagram_type = "activity"
    /\ Generated(generate_activity_diagram(GenInit, data))

\* the characters of the texts converted that no XML document can hold
NotXml == "\f"

\* minidom.parseString(xml_str) takes the document: no label of a cell holds
\* a character that is not XML
Serializable(doc) ==
    \A i \in DOMAIN doc.root :
        \A k \in 1..Len(Field(doc.root[i], "value", "")) :
            ~CharIn(Ch(Field(doc.root[i], "value", ""), k), NotXml)

\* a save that does not wait for the parser and the generator
SaveAtOnce ==
    /\ pc \in {"constructed", "parsed", "generated"}
    /\ saved' = TRUE
    /\ result' = TRUE
    /\ pc' = "done"
    /\ UNCHANGED <<content, lines, read, diagram_type, seqp, clsp, ucp, actp, data,
                   gen, mxfile, first_doc, peer>>

\* generator.save_to_file(mxfile, output_file); return True
Save ==
    /\ pc = "generated"
    /\ Serializable(mxfile)
    /\ saved' = TRUE
    /\ result' = TRUE
    /\ pc' = "done"
    /\ UNCHANGED <<content, lines, read, diagram_type, seqp, clsp, ucp, actp, data,
                   gen, mxfile, first_doc, peer>>

\* save_to_file raises before it opens the output file: parseString
\* refuses the document; the except clause returns False
SaveRaises ==
    /\ pc = "generated"
    /\ ~Serializable(mxfile)
    /\ result' = FALSE
    /\ pc' = "done"
    /\ UNCHANGED <<content, lines, read, diagram_type, seqp, clsp, ucp, actp, data,
                   gen, mxfile, saved, first_doc, peer>>

\* nothing is parsed or generated before a conversion
Fresh ==
    /\ lines = <<>>
    /\ read = <<>>
    /\ diagram_type = "none"
    /\ seqp = SeqInit
    /\ clsp = ClassInit
    /\ ucp = UsecaseInit
    /\ actp = ActInit
    /\ data = NoData
    /\ gen = GenInit
    /\ mxfile = NoDoc
    /\ saved = FALSE
    /\ result = NoResult

\* the same text is converted once more, by another run of the program
ConvertAgain ==
    /\ pc = "done"
    /\ result = TRUE
    /\ first_doc = NoDoc
    /\ first_doc' = mxfile
    /\ pc' = "convert"
    /\ lines' = <<>>
    /\ diagram_type' = "none"
    /\ seqp' = SeqInit
    /\ clsp' = ClassInit
    /\ ucp' = UsecaseInit
    /\ actp' = ActInit
    /\ data' = NoData
    /\ gen' = GenInit
    /\ mxfile' = NoDoc
    /\ saved' = FALSE
    /\ result' = NoResult
    /\ UNCHANGED <<content, read, peer>>

Init ==
    /\ pc = "convert"
    /\ content \in Texts
    /\ Fresh
    /\ first_doc = NoDoc
    /\ peer = NoPeer

Next ==
    \/ Construct
    \/ ReturnUnknown
    \/ ParseSequence
    \/ ParseClass
    \/ ParseUsecase
    \/ ParseActivity
    \/ ParseRaises
    \/ GenerateSequence
    \/ GenerateClass
    \/ GenerateUsecase
    \/ GenerateActivity
    \/ Save
    \/ SaveRaises
    \/ ConvertAgain

Spec == Init /\ [][Next]_vars

---------------------------------------------------------------------------
(* _parse_sequence line by line: the lines of a sequence diagram are fed   *)
(* to the loop one at a time, then the model is returned and drawn.  The   *)
(* lines fed are not kept: a text of such lines with one more line         *)
(* SequencePad, which the loop ignores, is classified as a sequence        *)
(* diagram, so every state reached is one the parser is in while it reads  *)
(* a sequence diagram.                                                     *)

SequencePad == "activate A"

\* line can stand in a text the classifier takes for a sequence diagram
SequenceLine(line) ==
    _detect_diagram_type("@startuml\n" \o line \o "\n" \o SequencePad)
        = "sequence"

\* the lines of S the classifier lets stand in a sequence diagram
SequenceLines(S) == {line \in S : SequenceLine(line)}

SeqParticipantLines == SequenceLines({"participant A", "participant B"})
SeqFragmentLines == SequenceLines({"alt c"})
SeqElseLines == SequenceLines({"else d", "else"})
SeqEndLines == SequenceLines({"end"})
SeqMessageLines ==
    SequenceLines({"A -> B: hello", "A --> B: ok", "A ->> B: go", "A -->> B",
                   "B -> A : hi"})
SeqOtherLines == SequenceLines({"note over A", "' comment", SequencePad})

\* every section list of the fragments of q has at most MaxSections
ShortSections(q) == \A i \in DOMAIN q : Len(q[i].sections) <= MaxSections

\* the locals stay within the bounds
SeqBounded(st) ==
    /\ Len(st.messages) <= MaxMessages
    /\ Len(st.participants) <= MaxParticipants
    /\ Len(st.fragments) + Len(st.fragment_stack) <= MaxFragments
    /\ ShortSections(st.fragment_stack)

\* one iteration of the loop of _parse_sequence on line, while the parser
\* reads
SeqFeed(line) ==
    /\ SeqBounded(SeqStep(seqp, line))
    /\ seqp' = SeqStep(seqp, line)
    /\ read' = IF seqp' = seqp THEN read ELSE Append(read, line)
    /\ UNCHANGED <<pc, content, lines, diagram_type, clsp, ucp, actp, data,
                   gen, mxfile, saved, result, first_doc, peer>>

SeqParticipantLine ==
    /\ pc = "parsing"
    /\ diagram_type = "sequence"
    /\ \E line \in SeqParticipantLines : SeqFeed(line)

SeqFragmentLine ==
    /\ pc = "parsing"
    /\ diagram_type = "sequence"
    /\ \E line \in SeqFragmentLines : SeqFeed(line)

SeqElseLine ==
    /\ pc = "parsing"
    /\ diagram_type = "sequence"
    /\ \E line \in SeqElseLines : SeqFeed(line)

SeqEndLine ==
    /\ pc = "parsing"
    /\ diagram_type = "sequence"
    /\ \E line \in SeqEndLines : SeqFeed(line)

SeqMessageLine ==
    /\ pc = "parsing"
    /\ diagram_type = "sequence"
    /\ \E line \in SeqMessageLines : SeqFeed(line)

SeqOtherLine ==
    /\ pc = "parsing"
    /\ diagram_type = "sequence"
    /\ \E line \in SeqOtherLines : SeqFeed(line)


\* the end of the loop: return {"type": "sequence", ...}
SeqReturn ==
    /\ pc = "parsing"
    /\ diagram_type = "sequence"
    /\ data' = SeqData(seqp)
    /\ pc' = "parsed"
    /\ UNCHANGED <<content, lines, read, diagram_type, seqp, clsp, ucp, actp, gen,
                   mxfile, saved, result, first_doc, peer>>

\* the parser of a text of the kind type, constructed, before its loop
Parsing(type) ==
    /\ pc = "parsing"
    /\ content = "@startuml"
    /\ lines = <<>>
    /\ read = <<>>
    /\ diagram_type = type
    /\ seqp = SeqInit
    /\ clsp = ClassInit
    /\ ucp = UsecaseInit
    /\ actp = ActInit
    /\ data = NoData
    /\ gen = GenInit
    /\ mxfile = NoDoc
    /\ saved = FALSE
    /\ result = NoResult
    /\ first_doc = NoDoc
    /\ peer = NoPeer

InitSeq == Parsing("sequence")

NextSeq ==
    \/ SeqParticipantLine
    \/ SeqFragmentLine
    \/ SeqElseLine
    \/ SeqEndLine
    \/ SeqMessageLine
    \/ SeqOtherLine
    \/ SeqReturn
    \/ GenerateSequence
    \/ Save

SpecSeq == InitSeq /\ [][NextSeq]_vars

---------------------------------------------------------------------------
(* _parse_activity line by line, as _parse_sequence above: a text of the   *)
(* lines fed with one more line ActivityPad, which the loop ignores, is    *)
(* classified as an activity diagram.                                      *)

ActivityPad == "start x"

\* line can stand in a text the classifier takes for an activity diagram
ActivityLine(line) ==
    /\ _detect_diagram_type("@startuml\n" \o line \o "\n" \o ActivityPad)
           = "activity"
    /\ ~Contains(Lower(line), "actor")

ActivityLines(S) == {line \in S : ActivityLine(line)}

ActStartLines == ActivityLines({"start"})
ActStopLines == ActivityLines({"stop"})
ActActivityLines == ActivityLines({":work;"})
ActIfLines == ActivityLines({"if (c) then (yes)"})
ActElseLines == ActivityLines({"else (no)"})
ActEndifLines == ActivityLines({"endif"})
ActForkLines == ActivityLines({"fork"})
ActForkAgainLines == ActivityLines({"fork again"})
ActEndForkLines == ActivityLines({"end fork"})
ActOtherLines == ActivityLines({"note right", "floating", ActivityPad})

\* the nodes of the kind type among activities
NodesOfType(activities, type) ==
    {i \in DOMAIN activities : activities[i].type = type}

\* every fork frame of q has fewer than MaxBranches branches recorded, the
\* one being read is one more
FewBranches(q) == \A i \in DOMAIN q : Len(q[i].branches) < MaxBranches

\* the locals stay within the bounds
ActBounded(st) ==
    /\ Len(st.activities) <= MaxNodes
    /\ Cardinality(NodesOfType(st.activities, "decision")) <= MaxDecisions
    /\ Cardinality(NodesOfType(st.activities, "fork")) <= MaxForks
    /\ FewBranches(st.fork_stack)
    /\ st.multiline_activity # None => Len(st.multiline_activity) <= MaxText

\* one iteration of the loop of _parse_activity on line, while the parser
\* reads
ActFeed(line) ==
    /\ ActBounded(ActStep(actp, line))
    /\ actp' = ActStep(actp, line)
    /\ read' = IF actp' = actp THEN read ELSE Append(read, line)
    /\ UNCHANGED <<pc, content, lines, diagram_type, seqp, clsp, ucp, data,
                   gen, mxfile, saved, result, first_doc, peer>>

ActStartLine ==
    /\ pc = "parsing"
    /\ diagram_type = "activity"
    /\ \E line \in ActStartLines : ActFeed(line)

ActStopLine ==
    /\ pc = "parsing"
    /\ diagram_type = "activity"
    /\ \E line \in ActStopLines : ActFeed(line)

ActActivityLine ==
    /\ pc = "parsing"
    /\ diagram_type = "activity"
    /\ \E line \in ActActivityLines : ActFeed(line)

ActIfLine ==
    /\ pc = "parsing"
    /\ diagram_type = "activity"
    /\ \E line \in ActIfLines : ActFeed(line)

ActElseLine ==
    /\ pc = "parsing"
    /\ diagram_type = "activity"
    /\ \E line \in ActElseLines : ActFeed(line)

ActEndifLine ==
    /\ pc = "parsing"
    /\ diagram_type = "activity"
    /\ \E line \in ActEndifLines : ActFeed(line)

ActForkLine ==
    /\ pc = "parsing"
    /\ diagram_type = "activity"
    /\ \E line \in ActForkLines : ActFeed(line)

ActForkAgainLine ==
    /\ pc = "parsing"
    /\ diagram_type = "activity"
    /\ \E line \in ActForkAgainLines : ActFeed(line)

ActEndForkLine ==
    /\ pc = "parsing"
    /\ diagram_type = "activity"
    /\ \E line \in ActEndForkLines : ActFeed(line)

ActOtherLine ==
    /\ pc = "parsing"
    /\ diagram_type = "activity"
    /\ \E line \in ActOtherLines : ActFeed(line)

\* the end of the loop: return {"type": "activity", ...}
ActReturn ==
    /\ pc = "parsing"
    /\ diagram_type = "activity"
    /\ data' = ActData(actp)
    /\ pc' = "parsed"
    /\ UNCHANGED <<content, lines, read, diagram_type, seqp, clsp, ucp, actp, gen,
                   mxfile, saved, result, first_doc, peer>>

InitAct == Parsing("activity")

NextAct ==
    \/ ActStartLine
    \/ ActStopLine
    \/ ActActivityLine
    \/ ActIfLine
    \/ ActElseLine
    \/ ActEndifLine
    \/ ActForkLine
    \/ ActForkAgainLine
    \/ ActEndForkLine
    \/ ActOtherLine
    \/ ActReturn
    \/ GenerateActivity
    \/ Save

SpecAct == InitAct /\ [][NextAct]_vars

---------------------------------------------------------------------------
(* _parse_activity line by line on the text of an activity that runs over  *)
(* several lines: a line that opens one, lines of the vocabulary above     *)
(* while it is open, a line that ends it.                                  *)

MultiOpenLines == ActivityLines({":do"})
MultiTextLines ==
    ActivityLines({"stop", "endif", "if (c) then (yes)", "note right"})
MultiCloseLines == ActivityLines({"now;", ";"})

\* the locals stay within the bounds
MultiBounded(st) ==
    /\ ActBounded(st)
    /\ Len(st.activities) <= MaxMultiNodes

\* one iteration of the loop of _parse_activity on line, while the parser
\* reads
MultiFeed(line) ==
    /\ Len(read) < MaxRead
    /\ MultiBounded(ActStep(actp, line))
    /\ actp' = ActStep(actp, line)
    /\ read' = IF actp' = actp THEN read ELSE Append(read, line)
    /\ UNCHANGED <<pc, content, lines, diagram_type, seqp, clsp, ucp, data,
                   gen, mxfile, saved, result, first_doc, peer>>

MultiOpenLine ==
    /\ pc = "parsing"
    /\ diagram_type = "activity"
    /\ \E line \in MultiOpenLines : MultiFeed(line)

MultiTextLine ==
    /\ pc = "parsing"
    /\ diagram_type = "activity"
    /\ \E line \in MultiTextLines : MultiFeed(line)

MultiCloseLine ==
    /\ pc = "parsing"
    /\ diagram_type = "activity"
    /\ \E line \in MultiCloseLines : MultiFeed(line)

NextMulti ==
    \/ MultiOpenLine
    \/ MultiTextLine
    \/ MultiCloseLine
    \/ ActReturn
    \/ GenerateActivity
    \/ Save

SpecMulti == InitAct /\ [][NextMulti]_vars

---------------------------------------------------------------------------
(* _parse_activity line by line on diagrams with swim-lanes                *)

LaneMarkerLines == ActivityLines({"|A|", "| B |", "||"})
LaneRowLines == ActivityLines({"|a|b|"})
LaneNodeLines ==
    ActivityLines({"start", ":work;", "stop", "if (c) then (yes)", "endif"})

LaneBounded(st) ==
    /\ ActBounded(st)
    /\ Len(st.activities) <= MaxLaneNodes

\* one iteration of the loop of _parse_activity on line
LaneFeed(line) ==
    /\ Len(read) < MaxRead
    /\ LaneBounded(ActStep(actp, line))
    /\ actp' = ActStep(actp, line)
    /\ read' = IF actp' = actp THEN read ELSE Append(read, line)
    /\ UNCHANGED <<pc, content, lines, diagram_type, seqp, clsp, ucp, data,
                   gen, mxfile, saved, result, first_doc, peer>>

LaneMarkerLine ==
    /\ pc = "parsing"
    /\ diagram_type = "activity"
    /\ \E line \in LaneMarkerLines : LaneFeed(line)

LaneRowLine ==
    /\ pc = "parsing"
    /\ diagram_type = "activity"
    /\ \E line \in LaneRowLines : LaneFeed(line)

LaneNodeLine ==
    /\ pc = "parsing"
    /\ diagram_type = "activity"
    /\ \E line \in LaneNodeLines : LaneFeed(line)

NextLanes ==
    \/ LaneMarkerLine
    \/ LaneRowLine
    \/ LaneNodeLine
    \/ ActReturn
    \/ GenerateActivity
    \/ Save

SpecLanes == InitAct /\ [][NextLanes]_vars

---------------------------------------------------------------------------
(* _parse_sequence line by line on nested fragments: fewer kinds of lines  *)
(* than in SpecSeq, more fragments.                                        *)

FragOpenLines == SequenceLines({"alt c", "loop n", "opt"})
FragElseLines == SequenceLines({"else d"})
FragMessageLines == SequenceLines({"A -> B"})

\* the locals stay within the bounds
FragBounded(st) ==
    /\ Len(st.messages) <= MaxMessages
    /\ Len(st.fragments) + Len(st.fragment_stack) <= MaxOpened
    /\ ShortSections(st.fragment_stack)

\* one iteration of the loop of _parse_sequence on line
FragFeed(line) ==
    /\ FragBounded(SeqStep(seqp, line))
    /\ seqp' = SeqStep(seqp, line)
    /\ read' = IF seqp' = seqp THEN read ELSE Append(read, line)
    /\ UNCHANGED <<pc, content, lines, diagram_type, clsp, ucp, actp, data,
                   gen, mxfile, saved, result, first_doc, peer>>

FragOpenLine ==
    /\ pc = "parsing"
    /\ diagram_type = "sequence"
    /\ \E line \in FragOpenLines : FragFeed(line)

FragElseLine ==
    /\ pc = "parsing"
    /\ diagram_type = "sequence"
    /\ \E line \in FragElseLines : FragFeed(line)

FragEndLine ==
    /\ pc = "parsing"
    /\ diagram_type = "sequence"
    /\ \E line \in SeqEndLines : FragFeed(line)

FragMessageLine ==
    /\ pc = "parsing"
    /\ diagram_type = "sequence"
    /\ \E line \in FragMessageLines : FragFeed(line)

NextFrag ==
    \/ FragOpenLine
    \/ FragElseLine
    \/ FragEndLine
    \/ FragMessageLine
    \/ SeqReturn
    \/ GenerateSequence
    \/ Save

SpecFrag == InitSeq /\ [][NextFrag]_vars

---------------------------------------------------------------------------
(* _parse_sequence line by line on the endpoints of the messages: some     *)
(* declared as participants, some not                                      *)

EndParticipantLines ==
    SequenceLines({"participant A", "actor B", "participant Cee as C"})
EndMessageLines == SequenceLines({"A -> B", "B -> A", "A -> C", "C -> C"})

EndBounded(st) ==
    /\ Len(st.messages) <= MaxEndMessages
    /\ Len(st.participants) <= MaxEndParticipants

\* one iteration of the loop of _parse_sequence on line
EndFeed(line) ==
    /\ EndBounded(SeqStep(seqp, line))
    /\ seqp' = SeqStep(seqp, line)
    /\ read' = IF seqp' = seqp THEN read ELSE Append(read, line)
    /\ UNCHANGED <<pc, content, lines, diagram_type, clsp, ucp, actp, data,
                   gen, mxfile, saved, result, first_doc, peer>>

EndParticipantLine ==
    /\ pc = "parsing"
    /\ diagram_type = "sequence"
    /\ \E line \in EndParticipantLines : EndFeed(line)

EndMessageLine ==
    /\ pc = "parsing"
    /\ diagram_type = "sequence"
    /\ \E line \in EndMessageLines : EndFeed(line)

NextEnds ==
    \/ EndParticipantLine
    \/ EndMessageLine
    \/ SeqReturn
    \/ GenerateSequence
    \/ Save

SpecEnds == InitSeq /\ [][NextEnds]_vars

---------------------------------------------------------------------------
(* _parse_class line by line, as _parse_sequence above: a text of the      *)
(* lines fed with one more line ClassPad, which the loop ignores, is       *)
(* classified as a class diagram.                                          *)

ClassPad == "extends"

\* line can stand in a text the classifier takes for a class diagram
ClassLine(line) ==
    _detect_diagram_type("@startuml\n" \o line \o "\n" \o ClassPad) = "class"

ClassLines(S) == {line \in S : ClassLine(line)}

ClsDeclLines == ClassLines({"class A {", "interface B"})
ClsMemberLines == ClassLines({"+x", "+f()"})
ClsCloseLines == ClassLines({"}"})
ClsRelationLines ==
    ClassLines({"A <|-- B", "A --|> B", "A o-- B", "A --* B"})

\* every class of q has at most MaxMembers attributes and as many methods
FewMembers(q) ==
    \A i \in DOMAIN q : /\ Len(q[i].attributes) <= MaxMembers
                        /\ Len(q[i].methods) <= MaxMembers

\* the locals stay within the bounds
ClassBounded(st) ==
    /\ Len(st.classes) <= MaxClasses
    /\ Len(st.relations) <= MaxRelations
    /\ FewMembers(st.classes)

\* one iteration of the loop of _parse_class on line, while the parser reads
ClsFeed(line) ==
    /\ ClassBounded(ClassStep(clsp, line))
    /\ clsp' = ClassStep(clsp, line)
    /\ read' = IF clsp' = clsp THEN read ELSE Append(read, line)
    /\ UNCHANGED <<pc, content, lines, diagram_type, seqp, ucp, actp, data,
                   gen, mxfile, saved, result, first_doc, peer>>

ClsDeclLine ==
    /\ pc = "parsing"
    /\ diagram_type = "class"
    /\ \E line \in ClsDeclLines : ClsFeed(line)

ClsMemberLine ==
    /\ pc = "parsing"
    /\ diagram_type = "class"
    /\ \E line \in ClsMemberLines : ClsFeed(line)

ClsCloseLine ==
    /\ pc = "parsing"
    /\ diagram_type = "class"
    /\ \E line \in ClsCloseLines : ClsFeed(line)

ClsRelationLine ==
    /\ pc = "parsing"
    /\ diagram_type = "class"
    /\ \E line \in ClsRelationLines : ClsFeed(line)

\* the end of the loop: return {"type": "class", ...}
ClsReturn ==
    /\ pc = "parsing"
    /\ diagram_type = "class"
    /\ data' = ClassData(clsp)
    /\ pc' = "parsed"
    /\ UNCHANGED <<content, lines, read, diagram_type, seqp, clsp, ucp, actp, gen,
                   mxfile, saved, result, first_doc, peer>>

InitCls == Parsing("class")

\* the bodies of the classes: declarations, the separator, members with
\* and without parentheses, a value of an enum, the closing brace
BodyDeclLines == ClassLines({"class A {", "enum E"})
BodySeparatorLines == ClassLines({"--"})
BodyMemberLines == ClassLines({"+x", "-f()", "g()", "RED"})
BodyCloseLines == ClassLines({"}"})

BodyBounded(st) ==
    /\ Len(st.classes) <= MaxClasses
    /\ \A i \in DOMAIN st.classes :
           /\ Len(st.classes[i].attributes) <= MaxBodyMembers
           /\ Len(st.classes[i].methods) <= MaxBodyMembers

\* one iteration of the loop of _parse_class on line
BodyFeed(line) ==
    /\ Len(read) < MaxRead
    /\ BodyBounded(ClassStep(clsp, line))
    /\ clsp' = ClassStep(clsp, line)
    /\ read' = IF clsp' = clsp THEN read ELSE Append(read, line)
    /\ UNCHANGED <<pc, content, lines, diagram_type, seqp, ucp, actp, data,
                   gen, mxfile, saved, result, first_doc, peer>>

BodyDeclLine ==
    /\ pc = "parsing"
    /\ diagram_type = "class"
    /\ \E line \in BodyDeclLines : BodyFeed(line)

BodySeparatorLine ==
    /\ pc = "parsing"
    /\ diagram_type = "class"
    /\ \E line \in BodySeparatorLines : BodyFeed(line)

BodyMemberLine ==
    /\ pc = "parsing"
    /\ diagram_type = "class"
    /\ \E line \in BodyMemberLines : BodyFeed(line)

BodyCloseLine ==
    /\ pc = "parsing"
    /\ diagram_type = "class"
    /\ \E line \in BodyCloseLines : BodyFeed(line)

NextBody ==
    \/ BodyDeclLine
    \/ BodySeparatorLine
    \/ BodyMemberLine
    \/ BodyCloseLine
    \/ ClsReturn
    \/ GenerateClass
    \/ Save

SpecBody == InitCls /\ [][NextBody]_vars

NextCls ==
    \/ ClsDeclLine
    \/ ClsMemberLine
    \/ ClsCloseLine
    \/ ClsRelationLine
    \/ ClsReturn
    \/ GenerateClass
    \/ Save

---------------------------------------------------------------------------
(* _parse_usecase line by line: a text of the lines fed with one more line *)
(* UsecasePad, which the loop ignores, is classified as a use-case         *)
(* diagram.                                                                *)

UsecasePad == "legend usecase"

\* line can stand in a text the classifier takes for a use-case diagram
UsecaseLineOk(line) ==
    _detect_diagram_type("@startuml\n" \o line \o "\n" \o UsecasePad)
        = "usecase"

UsecaseLines(S) == {line \in S : UsecaseLineOk(line)}

UcRectangleLines == UsecaseLines({"rectangle \"S\" {"})
UcActorLines == UsecaseLines({"actor U"})
UcUsecaseLines == UsecaseLines({"usecase X", "(Y)"})
UcSolidLines == UsecaseLines({"U --> X", "U -- X"})
UcDottedLines ==
    UsecaseLines({"X ..> Y : <<include>>", "X ..> Y : <<extend>> --"})

\* the locals stay within the bounds
UsecaseBounded(st) ==
    /\ Len(st.actors) <= MaxActors
    /\ Len(st.usecases) <= MaxUsecases
    /\ Len(st.relations) <= MaxRelations

\* one iteration of the loop of _parse_usecase on line, while the parser
\* reads
UcFeed(line) ==
    /\ UsecaseBounded(UsecaseStep(ucp, line))
    /\ ucp' = UsecaseStep(ucp, line)
    /\ read' = IF ucp' = ucp THEN read ELSE Append(read, line)
    /\ UNCHANGED <<pc, content, lines, diagram_type, seqp, clsp, actp, data,
                   gen, mxfile, saved, result, first_doc, peer>>

UcRectangleLine ==
    /\ pc = "parsing"
    /\ diagram_type = "usecase"
    /\ \E line \in UcRectangleLines : UcFeed(line)

UcActorLine ==
    /\ pc = "parsing"
    /\ diagram_type = "usecase"
    /\ \E line \in UcActorLines : UcFeed(line)

UcUsecaseLine ==
    /\ pc = "parsing"
    /\ diagram_type = "usecase"
    /\ \E line \in UcUsecaseLines : UcFeed(line)

UcSolidLine ==
    /\ pc = "parsing"
    /\ diagram_type = "usecase"
    /\ \E line \in UcSolidLines : UcFeed(line)

UcDottedLine ==
    /\ pc = "parsing"
    /\ diagram_type = "usecase"
    /\ \E line \in UcDottedLines : UcFeed(line)

\* the end of the loop: return {"type": "usecase", ...}
UcReturn ==
    /\ pc = "parsing"
    /\ diagram_type = "usecase"
    /\ data' = UsecaseData(ucp)
    /\ pc' = "parsed"
    /\ UNCHANGED <<content, lines, read, diagram_type, seqp, clsp, ucp, actp, gen,
                   mxfile, saved, result, first_doc, peer>>

InitUc == Parsing("usecase")

NextUc ==
    \/ UcRectangleLine
    \/ UcActorLine
    \/ UcUsecaseLine
    \/ UcSolidLine
    \/ UcDottedLine
    \/ UcReturn
    \/ GenerateUsecase
    \/ Save

\* the class parser or the use-case parser, one of them in each behaviour
InitRel ==
    \/ InitCls
    \/ InitUc

NextRel ==
    \/ NextCls
    \/ NextUc

SpecRel == InitRel /\ [][NextRel]_vars

---------------------------------------------------------------------------
(* Two conversions in one process, each with its own PlantUMLParser and    *)
(* its own DrawIOGenerator.  One of them runs, the other waits in peer; a  *)
(* switch between two stages hands the processor to the other.  An         *)
(* instance keeps its state in its own attributes and in the locals of its *)
(* calls, so the switch stores and restores all of it.                     *)

\* the texts the two conversions are given
TwoTexts ==
    {"plain", "@startuml\nstate S1", "@startuml\nA -> B",
     "@startuml\nclass A\nclass B", "@startuml\nactor User\nusecase UC1",
     "@startuml\nstart\nstop", "@startuml\nA -> A : x\fy"}

\* the state of the conversion that runs, the one of id
Running(id, switches) ==
    [id |-> id, switches |-> switches, pc |-> pc, content |-> content,
     lines |-> lines, diagram_type |-> diagram_type, seqp |-> seqp,
     clsp |-> clsp, ucp |-> ucp, actp |-> actp, data |-> data, gen |-> gen,
     mxfile |-> mxfile, saved |-> saved, result |-> result]

\* a conversion of the text c that has not started
Waiting(id, c) ==
    [id |-> id, switches |-> 0, pc |-> "convert", content |-> c,
     lines |-> <<>>, diagram_type |-> "none", seqp |-> SeqInit,
     clsp |-> ClassInit, ucp |-> UsecaseInit, actp |-> ActInit,
     data |-> NoData, gen |-> GenInit, mxfile |-> NoDoc, saved |-> FALSE,
     result |-> NoResult]

\* the processor goes to the other conversion
TwoSwitch ==
    /\ peer.id # 0
    /\ peer.switches < MaxSwitches
    /\ peer' = Running(3 - peer.id, peer.switches + 1)
    /\ pc' = peer.pc
    /\ content' = peer.content
    /\ lines' = peer.lines
    /\ diagram_type' = peer.diagram_type
    /\ seqp' = peer.seqp
    /\ clsp' = peer.clsp
    /\ ucp' = peer.ucp
    /\ actp' = peer.actp
    /\ data' = peer.data
    /\ gen' = peer.gen
    /\ mxfile' = peer.mxfile
    /\ saved' = peer.saved
    /\ result' = peer.result
    /\ UNCHANGED <<read, first_doc>>

InitTwo ==
    /\ pc = "convert"
    /\ content \in TwoTexts
    /\ Fresh
    /\ first_doc = NoDoc
    /\ peer \in {Waiting(2, c) : c \in TwoTexts}

NextTwo ==
    \/ Construct
    \/ ReturnUnknown
    \/ ParseSequence
    \/ ParseClass
    \/ ParseUsecase
    \/ ParseActivity
    \/ ParseRaises
    \/ GenerateSequence
    \/ GenerateClass
    \/ GenerateUsecase
    \/ GenerateActivity
    \/ Save
    \/ SaveRaises
    \/ TwoSwitch

SpecTwo == InitTwo /\ [][NextTwo]_vars

---------------------------------------------------------------------------
(* One DrawIOGenerator used for several calls: generate_* on models of the *)
(* four kinds, one after the other, and add_rectangle and add_arrow on the *)
(* document generated last.  gen is the generator, mxfile the document of  *)
(* the last generate_* call and first_doc the document of the call before. *)

GenSequenceModels ==
    {_parse_sequence(ls) :
        ls \in {<<"A -> B">>,
                <<"participant A", "A -> A", "A -> B">>,
                <<"alt c", "A -> B", "else d", "B -> A", "end">>}}
GenClassModels ==
    {_parse_class(ls) :
        ls \in {<<"class A {", "+x", "}", "class B", "}", "A <|-- B">>}}
GenUsecaseModels ==
    {_parse_usecase(ls) : ls \in {<<"actor U", "usecase X", "U --> X">>}}
GenActivityModels ==
    {_parse_activity(ls) :
        ls \in {<<"start", ":work;", "stop">>,
                <<"|A|", "start", "if (c) then (yes)", ":work;", "endif">>}}

\* mxfile = generator.generate_*(model), by the generator used before
GeneratedAgain(model, g) ==
    /\ g.cell_id <= MaxCellId
    /\ data' = model
    /\ gen' = ObjectOf(g)
    /\ mxfile' = DocOf(g)
    /\ first_doc' = mxfile
    /\ UNCHANGED <<pc, content, lines, read, diagram_type, seqp, clsp, ucp,
                   actp, saved, result, peer>>

GenSequenceAgain ==
    /\ pc = "generator"
    /\ \E model \in GenSequenceModels :
           \E order \in SetOrders(model) :
               GeneratedAgain(model,
                              generate_sequence_diagram(gen, model, order))

GenClassAgain ==
    /\ pc = "generator"
    /\ \E model \in GenClassModels :
           GeneratedAgain(model, generate_class_diagram(gen, model))

GenUsecaseAgain ==
    /\ pc = "generator"
    /\ \E model \in GenUsecaseModels :
           GeneratedAgain(model, generate_usecase_diagram(gen, model))

GenActivityAgain ==
    /\ pc = "generator"
    /\ \E model \in GenActivityModels :
           GeneratedAgain(model, generate_activity_diagram(gen, model))

\* the generator with the document generated last, and the cells of that
\* document that a call of an add_* method added
GenWithDoc ==
    [cell_id |-> gen.cell_id, elements |-> gen.elements,
     name |-> mxfile.name, root |-> mxfile.root]

GenAddedCells ==
    {i \in DOMAIN mxfile.root :
        /\ i > 2
        /\ mxfile.root[i].value \in {"added", "added arrow"}}

\* a call of an add_* method on the document generated last
GenAdded(g) ==
    /\ g.cell_id <= MaxCellId
    /\ gen' = ObjectOf(g)
    /\ mxfile' = DocOf(g)
    /\ UNCHANGED <<pc, content, lines, read, diagram_type, seqp, clsp, ucp,
                   actp, data, saved, result, first_doc, peer>>

GenAddRectangle ==
    /\ pc = "generator"
    /\ mxfile # NoDoc
    /\ Cardinality(GenAddedCells) < MaxAdded
    /\ GenAdded(add_rectangle(GenWithDoc, "added", 10, 10, 120, 60,
                              "rounded=0;"))

GenAddArrow ==
    /\ pc = "generator"
    /\ mxfile # NoDoc
    /\ Cardinality(GenAddedCells) < MaxAdded
    /\ GenAdded(add_arrow(GenWithDoc, "elem_2", "elem_3", "added arrow",
                          "html=1;"))

InitGen ==
    /\ pc = "generator"
    /\ content = ""
    /\ lines = <<>>
    /\ read = <<>>
    /\ diagram_type = "none"
    /\ seqp = SeqInit
    /\ clsp = ClassInit
    /\ ucp = UsecaseInit
    /\ actp = ActInit
    /\ data = NoData
    /\ gen = GenInit
    /\ mxfile = NoDoc
    /\ saved = FALSE
    /\ result = NoResult
    /\ first_doc = NoDoc
    /\ peer = NoPeer

NextGen ==
    \/ GenSequenceAgain
    \/ GenClassAgain
    \/ GenUsecaseAgain
    \/ GenActivityAgain
    \/ GenAddRectangle
    \/ GenAddArrow

SpecGen == InitGen /\ [][NextGen]_vars

---------------------------------------------------------------------------
(* The parsers fed line by line, one of them in each behaviour.            *)

InitParsers ==
    \/ InitSeq
    \/ InitAct

NextParsers ==
    \/ NextSeq
    \/ NextAct

SpecParsers == InitParsers /\ [][NextParsers]_vars

---------------------------------------------------------------------------
(* The claims.                                                             *)

\* the text holds the start marker, in any case of letters
HasStartMarker(text) == Contains(Lower(text), "@startuml")

\* C1: a text without the start marker '@startuml' (compared without
\* regard to case) is classified as unknown and no model is produced:
\* parse() raises ValueError, nothing is parsed, drawn or saved, and the
\* conversion returns False.
C1_NoMarkerNoModel ==
    ~HasStartMarker(content) =>
        /\ pc # "convert" => diagram_type = "unknown"
        /\ pc # "convert" =>
               /\ ~parse(diagram_type, lines).ok
               /\ parse(diagram_type, lines).raised = "ValueError"
        /\ data = NoData
        /\ mxfile = NoDoc
        /\ ~saved
        /\ pc = "done" => result = FALSE

\* a text with class vocabulary and no start marker was converted
C1_Witness ==
    /\ pc = "done"
    /\ ~HasStartMarker(content)
    /\ Contains(content, "class A")
    /\ result = FALSE

\* the kinds of the tests of the classifier, in their order
C2_Order ==
    <<"usecase", "class", "sequence", "activity", "state", "component",
      "sequence">>

\* the kind the claim gives a text with the marker, from the tests that
\* succeed on it
C2_Kind(tests, hits) ==
    /\ [i \in DOMAIN tests |-> tests[i].kind] = C2_Order
    /\ diagram_type = IF hits = {} THEN "unknown" ELSE C2_Order[Min(hits)]

C2_Cases(content_lower) ==
    /\ C2_Kind(VocabularyTests(content_lower),
               {i \in 1..7 : VocabularyTests(content_lower)[i].found})
    /\ (Contains(content_lower, "class ")
            /\ Contains(content_lower, "usecase"))
           => diagram_type = "usecase"
    /\ (Contains(content_lower, "participant")
            /\ Contains(content_lower, "class ")
            /\ ~Contains(content_lower, "usecase"))
           => diagram_type = "class"

\* C2: for a text with the start marker the classifier returns the kind of
\* the first test that succeeds, the tests taken in the order use case,
\* class, sequence (participant, or actor with '->'), start/stop line
\* (activity), state, component, arrow tokens (sequence), and unknown if
\* none does; a text with class and use-case keywords is a use-case
\* diagram, and a sequence diagram with a class keyword is a class diagram.
C2_Precedence ==
    (pc = "constructed" /\ HasStartMarker(content))
        => C2_Cases(Lower(content))

\* a text with the marker, a class and a use case was classified
C2_Witness ==
    /\ pc = "constructed"
    /\ HasStartMarker(content)
    /\ Contains(content, "class A")
    /\ Contains(content, "usecase UC1")
    /\ diagram_type = "usecase"

\* the parser of a sequence diagram reads line: the step of its loop
C3_Reads(line) ==
    /\ pc = "parsing"
    /\ diagram_type = "sequence"
    /\ SeqFeed(line)

\* the step appends one message
C3_OneMore == Len(seqp'.messages) = Len(seqp.messages) + 1

\* C3: the sequence parser turns 'A -> B: hello' into exactly one message
\* from A to B with the label hello, neither reply nor asynchronous,
\* 'A --> B: ok' into a message to B that is a reply and not asynchronous,
\* and 'A ->> B: go' into a message to B that is asynchronous and no reply:
\* the colon after the target is not part of the target.
C3_MessageLines ==
    [][/\ C3_Reads("A -> B: hello") =>
              seqp'.messages = Append(seqp.messages,
                  [source |-> "A", target |-> "B", label |-> "hello",
                   is_return |-> FALSE, is_async |-> FALSE])
       /\ C3_Reads("A --> B: ok") =>
              /\ C3_OneMore
              /\ Last(seqp'.messages).target = "B"
              /\ Last(seqp'.messages).is_return
              /\ ~Last(seqp'.messages).is_async
       /\ C3_Reads("A ->> B: go") =>
              /\ C3_OneMore
              /\ Last(seqp'.messages).target = "B"
              /\ ~Last(seqp'.messages).is_return
              /\ Last(seqp'.messages).is_async]_vars

\* the arrow of a message line is dashed, has an open head
C4_Dashed(line) == Contains(line, "--")
C4_Open(line) == Contains(line, ">>")

\* C4 as stated: the reply flag is true exactly when the arrow is dashed
\* and the asynchronous flag exactly when its head is open, each whatever
\* the other is; 'A -->> B' is recorded as a reply and asynchronous.
C4_IndependentFlags ==
    [][\A line \in SeqMessageLines :
           C3_Reads(line) =>
               /\ C3_OneMore
               /\ Last(seqp'.messages).is_return = C4_Dashed(line)
               /\ Last(seqp'.messages).is_async = C4_Open(line)]_vars

\* C4, amended: every message line is recorded with two flags; the
\* asynchronous flag is true exactly when the head of the arrow is open
\* ('>>'), the reply flag exactly when the arrow is dashed ('--') and its
\* head is not open; 'A -->> B' is recorded as asynchronous and no reply.
C4_ReplyUnlessOpen ==
    [][\A line \in SeqMessageLines :
           C3_Reads(line) =>
               /\ C3_OneMore
               /\ Last(seqp'.messages).is_async = C4_Open(line)
               /\ Last(seqp'.messages).is_return
                      = (C4_Dashed(line) /\ ~C4_Open(line))]_vars

\* the line 'A -->> B' was read: it is recorded as asynchronous, no reply
C4_Witness ==
    \E i \in DOMAIN seqp.messages :
        seqp.messages[i] = [source |-> "A", target |-> "B", label |-> "",
                            is_return |-> FALSE, is_async |-> TRUE]

\* the label a fragment line declares
C5_Label == ("alt c" :> "c") @@ ("else d" :> "d") @@ ("else" :> "")

\* the section a line opens: its label, and as start index the number of
\* messages parsed before the line
C5_Section(line) ==
    [label |-> C5_Label[line], start_index |-> Len(seqp.messages)]

\* the parser's part of C5: an opener starts a frame with its section, an
\* else adds its section to the innermost frame, an end commits that frame
\* with the number of messages parsed as end index
C5_Parsed ==
    /\ \A line \in SeqFragmentLines :
           C3_Reads(line) =>
               /\ seqp'.fragment_stack # <<>>
               /\ Last(seqp'.fragment_stack).sections = <<C5_Section(line)>>
               /\ Last(seqp'.fragment_stack).start_index = Len(seqp.messages)
    /\ \A line \in SeqElseLines :
           (C3_Reads(line) /\ seqp.fragment_stack # <<>>) =>
               /\ Len(seqp'.fragment_stack) = Len(seqp.fragment_stack)
               /\ Last(seqp'.fragment_stack).sections =
                      Append(Last(seqp.fragment_stack).sections,
                             C5_Section(line))
    /\ \A line \in SeqEndLines :
           (C3_Reads(line) /\ seqp.fragment_stack # <<>>) =>
               seqp'.fragments =
                   Append(seqp.fragments,
                          [Last(seqp.fragment_stack) EXCEPT
                               !.end_index = Len(seqp.messages)])

\* the values of the section label cells of a document, in its order
C5_SectionLabels(root) ==
    LET cells == SelectSeq(root, LAMBDA c : StartsWith(c.id, "section_label_"))
    IN  [i \in DOMAIN cells |-> cells[i].value]

\* the labels the sections of a fragment declare, the sections without a
\* label left out
C5_LabelsOf(fragment) ==
    SelectSeq([i \in DOMAIN fragment.sections |->
                   "[" \o fragment.sections[i].label \o "]"],
              LAMBDA v : v # "[]")

\* the labels the fragments declare, in their order
RECURSIVE C5_Declared(_)
C5_Declared(fragments) ==
    IF fragments = <<>> THEN <<>>
    ELSE C5_LabelsOf(Head(fragments)) \o C5_Declared(Tail(fragments))

\* every fragment is around one message at least
C5_AroundMessages(fragments) ==
    \A i \in DOMAIN fragments :
        fragments[i].start_index < fragments[i].end_index

\* the generator's part of C5: the section labels of the document are the
\* labels the sections of the fragments declare
C5_Emitted ==
    (/\ pc = "parsed"
     /\ diagram_type = "sequence"
     /\ pc' = "generated"
     /\ C5_AroundMessages(data.fragments)) =>
        C5_SectionLabels(mxfile'.root) = C5_Declared(data.fragments)

\* C5: for an alt/else/end block around N messages split at k, the
\* fragment committed and emitted has one labelled section per section
\* declared, the label of the opener and of every else in their order, and
\* every section starts at the number of messages parsed before its line
\* (s, s+k), the fragment ending at s+N.
C5_FragmentRoundTrip == [][C5_Parsed /\ C5_Emitted]_vars

\* the parser's part alone
C5_ParsedAlone == [][C5_Parsed]_vars

\* the parser of an activity diagram reads 'endif', 'end fork'
C6_ReadsEndif ==
    /\ pc = "parsing"
    /\ diagram_type = "activity"
    /\ \E line \in ActEndifLines : ActFeed(line)

C8_ReadsEndFork ==
    /\ pc = "parsing"
    /\ diagram_type = "activity"
    /\ \E line \in ActEndForkLines : ActFeed(line)

\* the places of the transitions into the node id
C6_Inbound(transitions, id) ==
    {i \in DOMAIN transitions : transitions[i].target = id}

\* the lines of q from place a to place b are a branch: plain activities,
\* one at least, or, if stopped, plain activities and then a stop
C6_Run(q, a, b, stopped) ==
    /\ a <= b
    /\ \A k \in a..(b - 1) : q[k] \in ActActivityLines
    /\ q[b] \in (IF stopped THEN ActStopLines ELSE ActActivityLines)

\* the lines read end with 'if (c) then (yes)' at place i, a branch,
\* 'else (no)' at place j and a branch
C6_Block(q, i, j, stopped) ==
    /\ q[i] \in ActIfLines
    /\ q[j] \in ActElseLines
    /\ C6_Run(q, i + 1, j - 1, stopped)
    /\ C6_Run(q, j + 1, Len(q), stopped)

\* the step adds one node, a merge, with two transitions into it: one from
\* the node src1 and one from the node src2
C6_OneMerge(src1, src2) ==
    /\ Len(actp'.activities) = Len(actp.activities) + 1
    /\ Last(actp'.activities).type = "merge"
    /\ Cardinality(NodesOfType(actp'.activities, "merge"))
           = Cardinality(NodesOfType(actp.activities, "merge")) + 1
    /\ Cardinality(C6_Inbound(actp'.transitions,
                              Last(actp'.activities).id)) = 2
    /\ {actp'.transitions[i].source :
            i \in C6_Inbound(actp'.transitions, Last(actp'.activities).id)}
           = {src1, src2}
    /\ src1 # src2

\* the last node of the first branch, the else at place j of the lines
\* read and each line after it having made one node
C6_EndOfFirst(j) == actp.activities[Len(actp.activities) - (Len(read) - j)]

\* C6: at the endif of 'if (c) then (yes) .. else (no) .. endif' with each
\* branch a non-empty run of plain activities exactly one merge node is
\* created, with exactly two transitions into it, one from the last node
\* of each branch; where both branches end in stop, no merge node is.
C6_MergeLaw ==
    [][C6_ReadsEndif =>
          \A i, j \in DOMAIN read :
              /\ C6_Block(read, i, j, FALSE) =>
                     C6_OneMerge(C6_EndOfFirst(j).id,
                                 Last(actp.activities).id)
              /\ C6_Block(read, i, j, TRUE) =>
                     actp'.activities = actp.activities]_vars

\* a merge was created with two transitions into it, from two activities,
\* at the endif of such a block
C6_Witness ==
    /\ Len(read) >= 5
    /\ read[Len(read)] \in ActEndifLines
    /\ \E i, j \in 1..(Len(read) - 1) :
           C6_Block(SubSeq(read, 1, Len(read) - 1), i, j, FALSE)
    /\ Last(actp.activities).type = "merge"
    /\ Cardinality(C6_Inbound(actp.transitions, Last(actp.activities).id)) = 2

\* C7: after an endif whose two branches both ended in stop the cursor is
\* empty, so that the next element parsed receives no transition, none
\* from the node before the 'if' in particular.
C7_CursorEmpty ==
    [][C6_ReadsEndif =>
          \A i, j \in DOMAIN read :
              C6_Block(read, i, j, TRUE) =>
                  Last(actp'.prev_stack) = None]_vars

\* the endpoints of the branches of the innermost fork: the cursor kept at
\* each 'fork again' and the cursor now
C8_Endpoints == Append(Last(actp.fork_stack).branches, Last(actp.prev_stack))

\* the step adds one node, a join, which becomes the cursor, and the
\* transitions into the join are added at the end, one from each of the
\* sources in their order
C8_OneJoin(sources) ==
    /\ Len(actp'.activities) = Len(actp.activities) + 1
    /\ Last(actp'.activities).type = "join"
    /\ Last(actp'.prev_stack) = Last(actp'.activities).id
    /\ C6_Inbound(actp.transitions, Last(actp'.activities).id) = {}
    /\ actp'.transitions =
           actp.transitions \o
               [i \in DOMAIN sources |->
                   [source |-> sources[i],
                    target |-> Last(actp'.activities).id, label |-> ""]]

---------------------------------------------------------------------------
(* Relations without an emitted end, under Spec.                           *)

\* the relations, messages or transitions of a model
C9_Relations(d) ==
    CASE d.type = "sequence" -> d.messages
      [] d.type = "activity" -> d.transitions
      [] OTHER -> d.relations

\* the identifiers of a model for which a generator emits an entity
C9_Entities(d) ==
    CASE d.type = "sequence" ->
             IF d.participants = <<>> THEN EndpointNames(d.messages)
             ELSE {d.participants[i].alias : i \in DOMAIN d.participants}
      [] d.type = "class" -> {d.classes[i].name : i \in DOMAIN d.classes}
      [] d.type = "usecase" ->
             {d.actors[i].alias : i \in DOMAIN d.actors}
                 \cup {d.usecases[i].alias : i \in DOMAIN d.usecases}
      [] d.type = "activity" -> {d.activities[i].id : i \in DOMAIN d.activities}

\* the relations of a model whose source or target is no emitted entity
C9_Dangling(d) ==
    {i \in DOMAIN C9_Relations(d) :
        \/ C9_Relations(d)[i].source \notin C9_Entities(d)
        \/ C9_Relations(d)[i].target \notin C9_Entities(d)}

\* the arrows of a document, and the ids of its vertex cells
C9_Arrows(doc) ==
    {i \in DOMAIN doc.root : StartsWith(doc.root[i].id, "arrow_")}

C9_VertexIds(doc) ==
    {doc.root[i].id : i \in {j \in DOMAIN doc.root : "vertex" \in DOMAIN doc.root[j]}}

\* C9: in each of the four generators a relation, message or transition
\* whose source or target is no emitted entity produces no edge, and the
\* conversion goes on to its end: the document has one arrow for each
\* relation with both ends emitted and none for the others, and every edge
\* cell with source and target attributes names the ids of vertex cells of
\* the document.
C9_DanglingTolerated ==
    mxfile # NoDoc =>
        /\ Cardinality(C9_Arrows(mxfile))
               = Len(C9_Relations(data)) - Cardinality(C9_Dangling(data))
        /\ \A i \in DOMAIN mxfile.root :
               "source" \in DOMAIN mxfile.root[i] =>
                   /\ mxfile.root[i].source \in C9_VertexIds(mxfile)
                   /\ mxfile.root[i].target \in C9_VertexIds(mxfile)
        /\ pc = "done" => result = Serializable(mxfile)

\* a class diagram with a relation to a class that is not declared is
\* converted to a document without an arrow
C9_Witness ==
    /\ pc = "done"
    /\ result = TRUE
    /\ diagram_type = "class"
    /\ data.classes # <<>>
    /\ C9_Dangling(data) # {}
    /\ C9_Arrows(mxfile) = {}

---------------------------------------------------------------------------
(* The same text converted twice, under Spec.                              *)

\* what a cell shows: its label, its style and its geometry
C10_Shown(cell) ==
    [value |-> Field(cell, "value", None), style |-> Field(cell, "style", None),
     geometry |-> Field(cell, "geometry", None)]

\* the drawing of a document, whatever the numbering of its cells
C10_Drawing(doc) == {C10_Shown(doc.root[i]) : i \in DOMAIN doc.root}

\* C10: the conversion of the same text by two runs of the program gives
\* two documents with the same number of vertex and edge cells, showing the
\* same labels at the same places, for each kind of diagram, those sequence
\* diagrams included whose participants are inferred from the endpoints of
\* the messages.
C10_Idempotent ==
    (first_doc # NoDoc /\ mxfile # NoDoc) =>
        /\ Len(first_doc.root) = Len(mxfile.root)
        /\ Cardinality(C9_VertexIds(first_doc)) = Cardinality(C9_VertexIds(mxfile))
        /\ C10_Drawing(first_doc) = C10_Drawing(mxfile)

---------------------------------------------------------------------------
(* Closers with nothing open, under SpecParsers.                           *)

\* the closers of a decision, of a fork and of a fragment
C11_DecisionClosers == ActEndifLines \cup ActElseLines
C11_ForkClosers == ActEndForkLines \cup ActForkAgainLines
C11_FragmentClosers == SeqEndLines \cup SeqElseLines

\* C11: a closer with nothing open is a no-op.  In the activity parser an
\* 'endif' or 'else (..)' read with an empty decision stack, and an
\* 'end fork' or 'fork again' read with an empty fork stack, and in the
\* sequence parser an 'end' or 'else' read with an empty fragment stack,
\* leave every local of the parser as it was (nodes, transitions or
\* messages, fragments, stacks, cursor, counters), and no error is raised.
\* The line is read as a line of its own, not as a line of the text of a
\* multi-line activity.
C11_UnmatchedClosers ==
    /\ (diagram_type = "activity" /\ actp.multiline_activity = None) =>
           /\ actp.decision_stack = <<>> =>
                  \A line \in C11_DecisionClosers : ActStep(actp, line) = actp
           /\ actp.fork_stack = <<>> =>
                  \A line \in C11_ForkClosers : ActStep(actp, line) = actp
    /\ (diagram_type = "sequence" /\ seqp.fragment_stack = <<>>) =>
           \A line \in C11_FragmentClosers : SeqStep(seqp, line) = seqp

\* a decision was opened and closed, nodes and transitions are recorded,
\* and one more endif, with no decision open, changes nothing
C11_Witness ==
    /\ diagram_type = "activity"
    /\ Len(read) >= 3
    /\ Last(read) = "endif"
    /\ actp.decision_stack = <<>>
    /\ actp.transitions # <<>>
    /\ "endif" \in C11_DecisionClosers
    /\ ActStep(actp, "endif") = actp

---------------------------------------------------------------------------
(* The fragments returned, under SpecFrag.                                 *)

\* the fragments the lines q, from the k-th on, open and close: n messages
\* were read before, open holds the fragments open, the last opened last,
\* closed those closed, in the order of their 'end' lines
RECURSIVE C12_Scan(_, _, _, _, _)
C12_Scan(q, k, n, open, closed) ==
    IF k > Len(q) THEN [open |-> open, closed |-> closed]
    ELSE IF q[k] \in FragMessageLines
    THEN C12_Scan(q, k + 1, n + 1, open, closed)
    ELSE IF q[k] \in FragOpenLines
    THEN C12_Scan(q, k + 1, n,
                  Append(open, [line |-> q[k], start_index |-> n]), closed)
    ELSE IF q[k] = "end" /\ open # <<>>
    THEN C12_Scan(q, k + 1, n, Pop(open),
                  Append(closed, [line |-> Last(open).line,
                                  start_index |-> Last(open).start_index,
                                  end_index |-> n]))
    ELSE C12_Scan(q, k + 1, n, open, closed)

C12_Closed == C12_Scan(read, 1, 0, <<>>, <<>>).closed
C12_Open == C12_Scan(read, 1, 0, <<>>, <<>>).open

\* the opening line, the start and the end of the fragments of a list
C12_Shapes(fragments) ==
    [i \in DOMAIN fragments |->
        [line |-> fragments[i].type \o " " \o fragments[i].label,
         start_index |-> fragments[i].start_index,
         end_index |-> fragments[i].end_index]]

\* the frames drawn in a document, in the order they were drawn
C12_Frames(doc) ==
    SelectSeq(doc.root, LAMBDA cell : StartsWith(cell.id, "fragment_"))

\* the closed fragments that start at a message
C12_AtMessage(closed, n) ==
    SelectSeq(closed, LAMBDA f : f.start_index < n)

\* C12: the fragments the sequence parser has committed, and returns, are
\* exactly the fragments closed by an 'end' line, in the order they were
\* closed (an inner fragment before the one around it), each with an end
\* index; a fragment still open at the end of the input is not in the
\* model returned and no frame is drawn for it.
C12_ClosedOnly ==
    diagram_type = "sequence" =>
        /\ C12_Shapes(seqp.fragments) = C12_Closed
        /\ \A i \in DOMAIN seqp.fragments :
               seqp.fragments[i].end_index \in 0..Len(seqp.messages)
        /\ data # NoData => data.fragments = seqp.fragments
        /\ mxfile # NoDoc =>
               LET drawn == C12_AtMessage(C12_Closed, Len(data.messages))
               IN  /\ Len(C12_Frames(mxfile)) = Len(drawn)
                   /\ \A i \in DOMAIN drawn :
                          C12_Frames(mxfile)[i].value
                              = "<b>" \o Split(drawn[i].line, " ")[1]
                                    \o "</b>"

\* an inner fragment was closed and drawn, the one around it was still
\* open when the input ended
C12_Witness ==
    /\ pc = "done"
    /\ diagram_type = "sequence"
    /\ C12_Open # <<>>
    /\ Len(C12_Closed) = 1
    /\ C12_Closed[1].start_index > C12_Open[1].start_index
    /\ Len(data.fragments) = 1
    /\ Len(C12_Frames(mxfile)) = 1

---------------------------------------------------------------------------
(* No output without a document, under Spec.                               *)

\* C13: no partial output.  The output file is written only after the
\* classifier returned a supported kind (sequence, class, usecase,
\* activity) and the parser and the generator have both returned; for a
\* text classified unknown, state or component, and when a stage raises,
\* the conversion returns False, writes no output file and lets no
\* exception through: it ends with a result that is True or False.
C13_NoPartialOutput ==
    /\ saved =>
           /\ diagram_type \in SupportedTypes
           /\ data # NoData
           /\ mxfile # NoDoc
           /\ result = TRUE
    /\ pc = "done" =>
           /\ result \in BOOLEAN
           /\ result = saved
           /\ (mxfile # NoDoc /\ ~Serializable(mxfile)) => result = FALSE
           /\ diagram_type \notin SupportedTypes =>
                  /\ result = FALSE
                  /\ data = NoData
                  /\ mxfile = NoDoc

\* a text classified as a state diagram: parse() raised, the conversion
\* returned False and wrote nothing
C13_Witness ==
    /\ pc = "done"
    /\ diagram_type = "state"
    /\ ~parse(diagram_type, lines).ok
    /\ result = FALSE
    /\ ~saved

\* the entries of a list of entities under one key
C14_Keys(entities, key) == [i \in DOMAIN entities |-> entities[i][key]]

\* no value occurs twice in a list
C14_Distinct(q) == \A i, j \in DOMAIN q : q[i] = q[j] => i = j

\* C14: the identifiers of the entities of one parsed diagram are unique:
\* the ids of the activity nodes, 'start' included, the aliases of the
\* participants, the names of the classes, the aliases of the actors and of
\* the use cases; a declaration of an identifier already declared adds no
\* second entity.
C14_UniqueIdentifiers ==
    data # NoData =>
        /\ data.type = "activity" =>
               C14_Distinct(C14_Keys(data.activities, "id"))
        /\ data.type = "sequence" =>
               C14_Distinct(C14_Keys(data.participants, "alias"))
        /\ data.type = "class" =>
               C14_Distinct(C14_Keys(data.classes, "name"))
        /\ data.type = "usecase" =>
               /\ C14_Distinct(C14_Keys(data.actors, "alias"))
               /\ C14_Distinct(C14_Keys(data.usecases, "alias"))

\* the branch ends that are live: the cursors that are not empty
C15_Live(ends) == SelectSeq(ends, LAMBDA e : e # None)

\* the parser reads an 'endif' that closes a decision that has an else
C15_ClosesDecision ==
    /\ C6_ReadsEndif
    /\ actp.decision_stack # <<>>
    /\ Last(actp.decision_stack).in_else

\* the transitions the step adds, each as its source and its target
C15_Added ==
    [i \in 1..(Len(actp'.transitions) - Len(actp.transitions)) |->
        <<actp'.transitions[Len(actp.transitions) + i].source,
          actp'.transitions[Len(actp.transitions) + i].target>>]

\* C15: at every endif that closes a decision a merge node is created if
\* and only if one branch at least has a live cursor, the cursor of an empty
\* branch, which is still the decision node, being live; the transitions
\* into the merge are exactly one from each live branch end, and none comes
\* from a branch that ended in stop.
C15_MergeIffLive ==
    [][C15_ClosesDecision =>
          LET Law(live) ==
                  IF live = <<>>
                  THEN /\ actp'.activities = actp.activities
                       /\ actp'.transitions = actp.transitions
                  ELSE /\ Len(actp'.activities) = Len(actp.activities) + 1
                       /\ Last(actp'.activities).type = "merge"
                       /\ C15_Added =
                              [i \in DOMAIN live |->
                                  <<live[i], Last(actp'.activities).id>>]
          IN  Law(C15_Live(<<Last(actp.decision_stack).first_branch_end,
                             Last(actp.prev_stack)>>))]_vars

\* the relation tokens of a class diagram and the kind each stands for
C16_Tokens ==
    {"<|--", "--|>", "<|..", "..|>", "o--", "--o", "*--", "--*", "--"}

C16_Kind(tok) ==
    IF tok \in {"<|--", "--|>"} THEN "inheritance"
    ELSE IF tok \in {"<|..", "..|>"} THEN "implementation"
    ELSE IF tok \in {"o--", "--o"} THEN "aggregation"
    ELSE IF tok \in {"*--", "--*"} THEN "composition"
    ELSE "association"

\* the class parser reads, outside of any class
C16_Outside ==
    /\ pc = "parsing"
    /\ diagram_type = "class"
    /\ clsp.current_class = 0

\* reading 'A tok B' adds exactly the relation from A to B of the kind of tok
C16_Yields(tok) ==
    ClassStep(clsp, "A " \o tok \o " B") =
        [clsp EXCEPT !.relations = Append(@,
            [source |-> "A", target |-> "B", type |-> C16_Kind(tok),
             label |-> ""])]

\* C16: in the class parser a line 'X tok Y' outside of any class yields
\* exactly one relation with source X and target Y, of the kind of its
\* token: inheritance for '<|--' and '--|>', implementation for '<|..' and
\* '..|>', aggregation for 'o--' and '--o', composition for '*--' and
\* '--*', association for a plain '--'.
C16_RelationKinds == C16_Outside => \A tok \in C16_Tokens : C16_Yields(tok)

\* the tokens for which the relation is as stated
C16_TokensRead == {"<|--", "<|..", "--o", "--*", "--"}

C16_LeftTokens == C16_Outside => \A tok \in C16_TokensRead : C16_Yields(tok)

\* in the use-case parser reading line adds exactly the relation from X to Y
\* of the kind type, with the label of the line
C17_Yields(line, type, label) ==
    UsecaseStep(ucp, line) =
        [ucp EXCEPT !.relations = Append(@,
            [source |-> "X", target |-> "Y", type |-> type,
             label |-> label])]

\* C17: in the use-case parser 'X ..> Y : label' yields exactly one relation
\* from X to Y, of the kind 'extends' when the label contains 'extend' in
\* any case and 'include' otherwise; a plain '-->' and a plain '--' yield
\* an 'association'.
C17_DottedRelations ==
    (pc = "parsing" /\ diagram_type = "usecase") =>
        /\ C17_Yields("X ..> Y : <<include>>", "include", "<<include>>")
        /\ C17_Yields("X ..> Y : <<extend>>", "extends", "<<extend>>")
        /\ C17_Yields("X ..> Y : <<Extend>>", "extends", "<<Extend>>")
        /\ C17_Yields("X --> Y", "association", "")
        /\ C17_Yields("X -- Y", "association", "")

\* the solid arrows alone, and a dotted arrow whose label holds '--'
C17_SolidRelations ==
    (pc = "parsing" /\ diagram_type = "usecase") =>
        /\ C17_Yields("X --> Y", "association", "")
        /\ C17_Yields("X -- Y", "association", "")
        /\ C17_Yields("X ..> Y : <<Extend>> --", "extends", "<<Extend>> --")
        /\ C17_Yields("X ..> Y : uses --", "include", "uses --")

\* the model and the type of the text c converted alone
C18_Type(c) == _detect_diagram_type(c)
C18_Model(c) == parse(C18_Type(c), StrippedLines(c))

\* the documents the conversion of the text c alone can produce, one for
\* each order its generator may iterate a set in
C18_Documents(c) ==
    LET Drawn(type, d) ==
            IF type = "sequence"
            THEN {DocOf(generate_sequence_diagram(GenInit, d, order)) :
                      order \in SetOrders(d)}
            ELSE IF type = "class"
            THEN {DocOf(generate_class_diagram(GenInit, d))}
            ELSE IF type = "usecase"
            THEN {DocOf(generate_usecase_diagram(GenInit, d))}
            ELSE {DocOf(generate_activity_diagram(GenInit, d))}
    IN  IF C18_Type(c) \in SupportedTypes
        THEN Drawn(C18_Type(c), C18_Model(c).data)
        ELSE {}

\* the conversion r is where the conversion of its text alone would be:
\* its model, its document and its result are those of its text alone
C18_AsAlone(r) ==
    /\ r.pc \in {"constructed", "parsed", "generated", "done"} =>
           /\ r.lines = StrippedLines(r.content)
           /\ r.diagram_type = C18_Type(r.content)
    /\ r.pc \in {"parsed", "generated"} => r.data = C18_Model(r.content).data
    /\ r.data # NoData => r.data = C18_Model(r.content).data
    /\ r.pc = "generated" => r.mxfile \in C18_Documents(r.content)
    /\ r.mxfile # NoDoc => r.mxfile \in C18_Documents(r.content)
    /\ r.pc = "done" =>
           /\ r.result = (r.mxfile # NoDoc /\ Serializable(r.mxfile))
           /\ r.saved = r.result
           /\ C18_Type(r.content) \in SupportedTypes => r.mxfile # NoDoc

C19_Document(doc) ==
    /\ doc # NoDoc
    /\ Len(doc.root) >= 2
    /\ doc.root[1].id = "0"
    /\ doc.root[2].id = "1"
    /\ \A i, j \in DOMAIN doc.root : doc.root[i].id = doc.root[j].id => i = j

\* the stacks of the activity parser are such that every access the loop
\* makes is defined: a cursor is on prev_stack for each open decision and
\* one below them
C19_ActivityStacks ==
    Len(actp.prev_stack) = Len(actp.decision_stack) + 1

\* each open fragment of the sequence parser has a section, and the message
\* indices of the fragments are indices the generator can look up or test
C19_FragmentStacks ==
    /\ \A i \in DOMAIN seqp.fragment_stack :
           /\ seqp.fragment_stack[i].sections # <<>>
           /\ seqp.fragment_stack[i].start_index \in 0..Len(seqp.messages)
    /\ \A i \in DOMAIN seqp.fragments :
           /\ seqp.fragments[i].sections # <<>>
           /\ seqp.fragments[i].start_index \in 0..Len(seqp.messages)
           /\ seqp.fragments[i].end_index \in
                  seqp.fragments[i].start_index..Len(seqp.messages)

C20_Bare(kw) == kw
C20_Labelled(kw) == kw \o " x"

\* the frame the opener of the kind kw with the label pushes now
C20_Frame(kw, label) ==
    [type |-> kw, label |-> label, start_index |-> seqp.message_index,
     sections |-> <<[label |-> label, start_index |-> seqp.message_index]>>,
     end_index |-> NoIndex]

\* reading line pushes exactly the frame, and the 'end' read next closes it
C20_Opens(line, frame) ==
    /\ SeqStep(seqp, line) =
           [seqp EXCEPT !.fragment_stack = Append(@, frame)]
    /\ SeqStep(SeqStep(seqp, line), "end") =
           [seqp EXCEPT !.fragments =
               Append(@, [frame EXCEPT !.end_index = seqp.message_index])]

\* the sequence parser reads
C20_Reading == pc = "parsing" /\ diagram_type = "sequence"

\* C20: in the sequence parser every line that opens a fragment (alt, opt,
\* loop, par, break, critical, with a label after it or without) pushes
\* exactly one frame whose first section starts at the current message
\* index, so that every 'end' closes the fragment opened last among those
\* still open.
C20_OpenersPush ==
    C20_Reading =>
        \A kw \in FragmentKeywords :
            /\ C20_Opens(C20_Labelled(kw), C20_Frame(kw, "x"))
            /\ C20_Opens(C20_Bare(kw), C20_Frame(kw, ""))

\* the openers that have a label
C20_LabelledOpeners ==
    C20_Reading =>
        \A kw \in FragmentKeywords :
            C20_Opens(C20_Labelled(kw), C20_Frame(kw, "x"))

\* a bare opener pushes nothing, and the 'end' after it closes whatever was
\* open before it
C20_BareOpeners ==
    C20_Reading =>
        \A kw \in FragmentKeywords :
            /\ SeqStep(seqp, C20_Bare(kw)) = seqp
            /\ seqp.fragment_stack # <<>> =>
                   /\ SeqStep(seqp, "end").fragment_stack
                          = Pop(seqp.fragment_stack)
                   /\ Last(SeqStep(seqp, "end").fragments).type
                          = Last(seqp.fragment_stack).type

---------------------------------------------------------------------------
(* The labels of the transitions of a decision, under SpecAct.             *)

\* the activity parser reads and is in no multi-line activity
C21_Reading ==
    /\ pc = "parsing"
    /\ diagram_type = "activity"
    /\ actp.multiline_activity = None

\* the line read last opened a branch of the innermost decision: its then
\* branch, its else branch
C21_ThenStarts == read # <<>> /\ Last(read) \in ActIfLines
C21_ElseStarts == read # <<>> /\ Last(read) \in ActElseLines

\* the label of the branch that starts, the lines being those of
\* ActIfLines and of ActElseLines
C21_Label == IF C21_ThenStarts THEN "yes" ELSE "no"

\* the transition the line adds last leaves the innermost decision for the
\* node that the line creates, with the label
C21_Leaves(line, label) ==
    LET Law(st) ==
            /\ Len(st.activities) = Len(actp.activities) + 1
            /\ Len(st.transitions) > Len(actp.transitions)
            /\ Last(st.transitions) =
                   [source |-> Last(actp.decision_stack).id,
                    target |-> Last(st.activities).id, label |-> label]
    IN  Law(ActStep(actp, line))

\* the elements that can start a branch
C21_Starters == {":work;", "stop", "if (c) then (yes)", "fork"}

\* C21: the first transition that leaves a decision node on its then branch
\* carries the then label and the first one that leaves it on its else
\* branch carries the else label, whatever element starts the branch, an
\* activity, a stop, a nested if or a fork; no later transition of the
\* branch carries the label.
C21_BranchLabels ==
    C21_Reading =>
        /\ (C21_ThenStarts \/ C21_ElseStarts) =>
               \A line \in C21_Starters : C21_Leaves(line, C21_Label)
        /\ (read # <<>> /\ Last(read) \in ActActivityLines) =>
               \A line \in C21_Starters :
                   \A i \in (Len(actp.transitions) + 1)
                                ..Len(ActStep(actp, line).transitions) :
                       ActStep(actp, line).transitions[i].label = ""

\* the branches that an activity starts, and the transitions after it
C21_ActivityStarts ==
    C21_Reading =>
        /\ (C21_ThenStarts \/ C21_ElseStarts) =>
               C21_Leaves(":work;", C21_Label)
        /\ (read # <<>> /\ Last(read) \in ActActivityLines) =>
               \A line \in C21_Starters :
                   \A i \in (Len(actp.transitions) + 1)
                                ..Len(ActStep(actp, line).transitions) :
                       ActStep(actp, line).transitions[i].label = ""

\* the branches that a stop, a nested if or a fork starts: the transition
\* has no label
C21_OtherStarts ==
    C21_Reading =>
        ((C21_ThenStarts \/ C21_ElseStarts) =>
            \A line \in C21_Starters \ {":work;"} : C21_Leaves(line, ""))

\* the place in the lines read of the 'if' and of the 'else' of the
\* innermost open decision
C22_IfPlace ==
    Max({i \in DOMAIN read : read[i] \in ActIfLines})
C22_ElsePlace ==
    Max({i \in DOMAIN read : read[i] \in ActElseLines})

\* an endif now closes a decision that has an else, and makes a merge node
C22_Merges ==
    /\ C21_Reading
    /\ actp.decision_stack # <<>>
    /\ Last(actp.decision_stack).in_else
    /\ Len(ActStep(actp, "endif").activities) = Len(actp.activities) + 1

\* no line that changed the parser was read in the then branch, in the
\* else branch
C22_ThenEmpty == C22_ElsePlace = C22_IfPlace + 1
C22_ElseEmpty == C22_ElsePlace = Len(read)

\* the transitions endif adds
C22_Added ==
    SubSeq(ActStep(actp, "endif").transitions, Len(actp.transitions) + 1,
           Len(ActStep(actp, "endif").transitions))

\* the transition into the merge from the end of a branch: from the
\* decision with the label of the branch if the branch is empty, from its
\* last node without a label if not, none if it ended
C22_Into(merge_id, empty, end, label) ==
    IF empty
    THEN <<[source |-> Last(actp.decision_stack).id, target |-> merge_id,
            label |-> label]>>
    ELSE IF end # None
    THEN <<[source |-> end, target |-> merge_id, label |-> ""]>>
    ELSE <<>>

\* C22: each transition into a merge node carries a branch label exactly
\* when that branch was empty: an empty then branch gives a transition from
\* the decision to the merge with the then label, an empty else branch one
\* with the else label, and the transition from the last node of a branch
\* that is not empty has an empty label.
C22_MergeLabels ==
    C22_Merges =>
        C22_Added =
            C22_Into(Last(ActStep(actp, "endif").activities).id,
                     C22_ThenEmpty,
                     Last(actp.decision_stack).first_branch_end, "yes")
            \o C22_Into(Last(ActStep(actp, "endif").activities).id,
                        C22_ElseEmpty, Last(actp.prev_stack), "no")

\* the same with no label on the transition of an empty then branch
C22_ElseLabelOnly ==
    C22_Merges =>
        C22_Added =
            C22_Into(Last(ActStep(actp, "endif").activities).id,
                     C22_ThenEmpty,
                     Last(actp.decision_stack).first_branch_end, "")
            \o C22_Into(Last(ActStep(actp, "endif").activities).id,
                        C22_ElseEmpty, Last(actp.prev_stack), "no")

---------------------------------------------------------------------------
(* The stop lines of an activity diagram.                                  *)

\* the ids of the end nodes
C23_Ends(activities) ==
    {activities[i].id : i \in NodesOfType(activities, "end")}

\* a stop read now creates one end node, with a transition into it from the
\* cursor if the cursor is live and none if not, and empties the cursor
C23_Stops ==
    LET Law(st, cursor) ==
            /\ Len(st.activities) = Len(actp.activities) + 1
            /\ SubSeq(st.activities, 1, Len(actp.activities))
                   = actp.activities
            /\ Last(st.activities).type = "end"
            /\ st.transitions =
                   IF cursor # None
                   THEN Append(actp.transitions,
                               [source |-> cursor,
                                target |-> Last(st.activities).id,
                                label |-> ""])
                   ELSE actp.transitions
            /\ st.prev_stack = SetLast(actp.prev_stack, None)
            /\ st.decision_stack = actp.decision_stack
            /\ st.fork_stack = actp.fork_stack
    IN  Law(ActStep(actp, "stop"), Last(actp.prev_stack))

\* C23: a 'stop' line creates one end node, adds a transition into it from
\* the cursor only when the cursor is live, and empties the cursor; in
\* every model reached no end node is the source of a transition, and an
\* element parsed directly after a stop on the same branch receives no
\* transition.
C23_StopEndsPath ==
    (pc \in {"parsing", "parsed"} /\ diagram_type = "activity") =>
        /\ C21_Reading => C23_Stops
        /\ \A i \in DOMAIN actp.transitions :
               actp.transitions[i].source \notin C23_Ends(actp.activities)
        /\ (C21_Reading /\ read # <<>> /\ Last(read) \in ActStopLines) =>
               \A line \in C21_Starters :
                   /\ ActStep(actp, line).transitions = actp.transitions
                   /\ Len(ActStep(actp, line).activities)
                          = Len(actp.activities) + 1

\* an activity was read directly after a stop that ended a live path: the
\* stop has its transition and the activity has none
C23_Witness ==
    /\ diagram_type = "activity"
    /\ Len(read) >= 3
    /\ read[Len(read) - 1] \in ActStopLines
    /\ read[Len(read)] \in ActActivityLines
    /\ Last(actp.activities).type = "activity"
    /\ C6_Inbound(actp.transitions, Last(actp.activities).id) = {}
    /\ \E i \in DOMAIN actp.transitions :
           actp.transitions[i].target \in C23_Ends(actp.activities)

\* the nodes the parser named with a counter: all but the start nodes
C24_Synthetic(activities) ==
    {i \in DOMAIN activities : activities[i].type # "start"}

\* the number of nodes of the kinds in types
C24_Count(activities, types) ==
    Cardinality({i \in DOMAIN activities : activities[i].type \in types})

\* C24: the synthetic identifiers the activity parser generates within one
\* parse are pairwise distinct: every stop has a 'stop_n' of its own and no
\* two of the act_, dec_, merge_, fork_, join_ and stop_ nodes share an id,
\* each counter being used once for a node and then increased.
C24_DistinctIds ==
    diagram_type = "activity" =>
        /\ \A i, j \in C24_Synthetic(actp.activities) :
               actp.activities[i].id = actp.activities[j].id => i = j
        /\ actp.stop_id = C24_Count(actp.activities, {"end"})
        /\ actp.fork_id = C24_Count(actp.activities, {"fork", "join"})
        /\ actp.activity_id =
               C24_Count(actp.activities, {"activity", "decision", "merge"})

\* a model with two end nodes, a fork and its join
C24_Witness ==
    /\ diagram_type = "activity"
    /\ pc = "parsed"
    /\ C24_Count(actp.activities, {"end"}) = 2
    /\ C24_Count(actp.activities, {"fork"}) = 1
    /\ C24_Count(actp.activities, {"join"}) = 1
    /\ data.activities = actp.activities

---------------------------------------------------------------------------
(* The else lines of an activity diagram.                                  *)

\* the lines of the activity vocabulary other than else and endif
C25_OtherLines ==
    ActStartLines \cup ActStopLines \cup ActActivityLines \cup ActIfLines
        \cup ActForkLines \cup ActForkAgainLines \cup ActEndForkLines
        \cup ActOtherLines

---------------------------------------------------------------------------
(* The activities that run over several lines, under SpecMulti.            *)

\* line opens a multi-line activity, ends one
C26_Opens(line) == StartsWith(line, ":") /\ ~EndsWith(line, ";")
C26_Ends(line) == EndsWith(line, ";")

\* the parser accumulates the text of a multi-line activity
C26_Accumulating ==
    /\ pc = "parsing"
    /\ diagram_type = "activity"
    /\ actp.multiline_activity # None

\* the lines that may follow, keywords among them, and those that end it
C26_Following ==
    {"stop", "endif", "if (c) then (yes)", "else (no)", "fork",
     "fork again", "end fork", "start", "|Lane|", "it", ":so", "note right",
     ""}
C26_Closers == {"now;", ";", ":work;"}

\* the place in the lines read of the line that opened the activity
C26_OpenPlace == Max({i \in DOMAIN read : C26_Opens(read[i])})

\* the lines accumulated so far, the opener without its colon first, and
\* then the closing line without its semicolon if it is not empty
C26_Pieces(closer) ==
    <<From(read[C26_OpenPlace], 1)>>
        \o SubSeq(read, C26_OpenPlace + 1, Len(read))
        \o (IF Len(closer) > 1 THEN <<Upto(closer, Len(closer) - 1)>>
            ELSE <<>>)

\* st is the parser with one more activity node named name, chained from
\* the cursor if the cursor is live, which is the cursor now
C26_OneActivity(st, name) ==
    /\ Len(st.activities) = Len(actp.activities) + 1
    /\ SubSeq(st.activities, 1, Len(actp.activities)) = actp.activities
    /\ Last(st.activities).type = "activity"
    /\ Last(st.activities).name = name
    /\ st.transitions =
           IF Last(actp.prev_stack) # None
           THEN Append(actp.transitions,
                       [source |-> Last(actp.prev_stack),
                        target |-> Last(st.activities).id,
                        label |-> ActivityLabel(actp)])
           ELSE actp.transitions
    /\ st.prev_stack = SetLast(actp.prev_stack, Last(st.activities).id)
    /\ st.multiline_activity = None
    /\ st.fork_stack = actp.fork_stack
    /\ Len(st.decision_stack) = Len(actp.decision_stack)

\* C26: after a line that starts with ':' and does not end with ';' the
\* parser adds no node and no transition and changes no stack and no
\* cursor while it accumulates the lines that follow, whatever keywords
\* they hold; when a line that ends with ';' arrives it creates exactly one
\* activity node, whose name is the lines accumulated joined by single
\* spaces, chained from the cursor as an activity of one line is.
C26_MultiLine ==
    C26_Accumulating =>
        /\ read # <<>>
        /\ \E i \in DOMAIN read : C26_Opens(read[i])
        /\ actp.multiline_activity = Join(C26_Pieces(""), " ")
        /\ \A line \in C26_Following :
               [ActStep(actp, line) EXCEPT !.multiline_activity = None]
                   = [actp EXCEPT !.multiline_activity = None]
        /\ \A line \in C26_Closers :
               C26_OneActivity(ActStep(actp, line),
                               Join(C26_Pieces(line), " "))

\* an activity of three lines, the second a keyword, was read: it is one
\* node, named by the three lines, and the keyword made no node
C26_Witness ==
    /\ diagram_type = "activity"
    /\ Len(read) >= 3
    /\ SubSeq(read, Len(read) - 2, Len(read)) = <<":do", "stop", "now;">>
    /\ Last(actp.activities).name = "do stop now"
    /\ NodesOfType(actp.activities, "end") = {}
    /\ actp.multiline_activity = None

---------------------------------------------------------------------------
(* The swim-lanes of an activity diagram, under SpecLanes.                 *)

\* the parser reads an activity diagram and is between two lines
C27_Reading ==
    /\ pc = "parsing"
    /\ diagram_type = "activity"
    /\ actp.multiline_activity = None

\* the lane markers and the names they carry, a table row, and the lines
\* that create nodes
C27_Markers == {"|A|", "| B |", "||", "|C|"}
C27_Name(line) ==
    IF line = "|A|" THEN "A"
    ELSE IF line = "| B |" THEN "B"
    ELSE IF line = "|C|" THEN "C"
    ELSE ""
C27_Rows == {"|a|b|", "| a | b | c |"}
C27_NodeLines ==
    {"start", ":work;", "stop", "if (c) then (yes)", "endif", "fork",
     "end fork"}

\* the names of seq that are not empty, each once, in the order of their
\* first occurrence
RECURSIVE C27_FirstOccurrences(_)
C27_FirstOccurrences(seq) ==
    IF seq = <<>> THEN <<>>
    ELSE LET before == C27_FirstOccurrences(SubSeq(seq, 1, Len(seq) - 1))
             name == seq[Len(seq)]
         IN  IF name = "" \/ \E i \in DOMAIN before : before[i] = name
             THEN before
             ELSE Append(before, name)

\* the names of the markers among the lines read, in the order read
C27_NamesRead ==
    LET marks == SelectSeq(read, LAMBDA line : line \in C27_Markers)
    IN  [i \in DOMAIN marks |-> C27_Name(marks[i])]

\* the nodes st has that the parser has not
C27_New(st) == (Len(actp.activities) + 1)..Len(st.activities)

\* C27: a '|Name|' line sets the current lane, and every node created
\* afterwards carries that lane until the next marker; a line with more
\* than one delimiter inside changes nothing; the swimlanes list holds each
\* lane name that is not empty exactly once, in the order of first
\* occurrence, and every lane label of a node that is not empty is in it.
C27_Lanes ==
    C27_Reading =>
        /\ actp.swimlanes = C27_FirstOccurrences(C27_NamesRead)
        /\ \A i, j \in DOMAIN actp.swimlanes :
               actp.swimlanes[i] = actp.swimlanes[j] => i = j
        /\ \A line \in C27_Markers :
               LET st == ActStep(actp, line)
               IN  /\ st.current_swimlane = C27_Name(line)
                   /\ st.swimlanes =
                          C27_FirstOccurrences(
                              Append(actp.swimlanes, C27_Name(line)))
                   /\ [st EXCEPT !.current_swimlane = None,
                                 !.swimlanes = <<>>]
                          = [actp EXCEPT !.current_swimlane = None,
                                         !.swimlanes = <<>>]
        /\ \A line \in C27_Rows : ActStep(actp, line) = actp
        /\ \A line \in C27_NodeLines :
               LET st == ActStep(actp, line)
               IN  /\ st.current_swimlane = actp.current_swimlane
                   /\ st.swimlanes = actp.swimlanes
                   /\ \A i \in C27_New(st) :
                          st.activities[i].swimlane = actp.current_swimlane
        /\ \A i \in DOMAIN actp.activities :
               actp.activities[i].swimlane \notin {None, ""}
                   => \E j \in DOMAIN actp.swimlanes :
                          actp.swimlanes[j] = actp.activities[i].swimlane

\* two lanes were entered, the first one twice, with a node created in each
\* stay: the list holds the two names once, in the order entered
C27_Witness ==
    /\ C27_Reading
    /\ read = <<"|A|", "start", "| B |", ":work;", "|A|", ":work;">>
    /\ actp.swimlanes = <<"A", "B">>
    /\ [i \in DOMAIN actp.activities |-> actp.activities[i].swimlane]
           = <<"A", "B", "A">>

---------------------------------------------------------------------------
(* The lines of the body of a class, under SpecBody.                       *)

\* the class parser is between two lines, inside the block of a class
C28_Open ==
    /\ pc = "parsing"
    /\ diagram_type = "class"
    /\ clsp.current_class # 0

\* lines with both parentheses, lines with a visibility sign and no
\* parenthesis, the other lines of a body, and declarations
C28_WithParentheses == {"-f()", "g()", "+h(a) : int", "#k( )", "(x)"}
C28_Signed == {"+x", "-y : int", "#z", "+p(", "-q)"}
C28_Others == {"RED", "name : str", "A -- B", "A <|-- B", "note", "x"}
C28_BodyLines == {"--"} \union C28_WithParentheses \union C28_Signed
                    \union C28_Others
C28_Declarations ==
    {"class A {", "class A", "interface B", "abstract class C {", "enum E {"}

\* the locals with attrs and meths added to the two lists of the class that
\* is open, and nothing else changed
C28_With(attrs, meths) ==
    [clsp EXCEPT !.classes[clsp.current_class].attributes = @ \o attrs,
                 !.classes[clsp.current_class].methods = @ \o meths]

\* C28: while a class is open, a '--' line switches the section flag to
\* methods; a line with both '(' and ')' is appended to methods whatever
\* the flag; a line that starts with '+', '-' or '#' and has no parentheses
\* is appended to attributes when the flag is attributes and to methods
\* when it is methods; every declaration line resets the flag to
\* attributes; each body line lands in at most one of the two lists, of the
\* class that is open only.
C28_BodyLinesLand ==
    /\ (pc = "parsing" /\ diagram_type = "class") =>
           \A line \in C28_Declarations :
               /\ ~ClassStep(clsp, line).in_methods_section
               /\ Len(ClassStep(clsp, line).classes) = Len(clsp.classes) + 1
    /\ C28_Open =>
        /\ \A line \in C28_Signed :
               ClassStep(clsp, line) =
                   IF clsp.in_methods_section
                   THEN C28_With(<<>>, <<line>>)
                   ELSE C28_With(<<line>>, <<>>)
        /\ ClassStep(clsp, "--") = [clsp EXCEPT !.in_methods_section = TRUE]
        /\ \A line \in C28_WithParentheses :
               ClassStep(clsp, line) = C28_With(<<>>, <<line>>)
        /\ \A line \in C28_BodyLines :
               \/ ClassStep(clsp, line) = C28_With(<<>>, <<>>)
               \/ ClassStep(clsp, line) = C28_With(<<line>>, <<>>)
               \/ ClassStep(clsp, line) = C28_With(<<>>, <<line>>)
               \/ line = "--"

\* a signed member was read before the separator and after it, and again
\* in the class declared next: it is an attribute, then a method, then an
\* attribute again
C28_Witness ==
    /\ pc = "parsing"
    /\ read = <<"class A {", "+x", "--", "+x", "enum E", "+x">>
    /\ clsp.classes[1].attributes = <<"+x">>
    /\ clsp.classes[1].methods = <<"+x">>
    /\ clsp.classes[2].attributes = <<"+x">>
    /\ clsp.classes[2].methods = <<>>

---------------------------------------------------------------------------
(* The relations of a class diagram and the open class, under SpecRel.     *)

\* the class parser is between two lines
C29_Reading == pc = "parsing" /\ diagram_type = "class"

\* the declarations, with a brace and without, and relation lines that the
\* pattern of the relations matches
C29_Declarations == {"class A {", "class A", "interface B", "enum E {"}
C29_Relations == {"A <|-- B", "A --* B", "A -- B", "A ..|> B", "A --> B : x"}
C29_Lines ==
    C29_Declarations \union C29_Relations
        \union {"}", "+x", "+f()", "--", "x", "note A -- B"}

\* the places of the declarations and of the closing braces among the
\* lines read, 0 if there is none
C29_LastPlace(S) == Max({0} \union {i \in DOMAIN read : read[i] \in S})

\* a class is open: a declaration was read and no '}' line since
C29_ClassOpen ==
    C29_LastPlace(C29_Declarations) > C29_LastPlace({"}"})

---------------------------------------------------------------------------
(* The layout of the nodes of an activity diagram, under SpecAct.          *)

\* an activity diagram was generated from data
C30_Generated ==
    /\ diagram_type = "activity"
    /\ data # NoData
    /\ mxfile # NoDoc

\* the nodes the generator emits: the first of each id, in declaration order
C30_Emitted ==
    {i \in DOMAIN data.activities :
        \A j \in 1..(i - 1) : data.activities[j].id # data.activities[i].id}

\* where the layout puts the node declared i-th
C30_Position(i) ==
    ActivityLayout(GenInit, data).element_positions[data.activities[i].id]
C30_X(i) == C30_Position(i)[1]
C30_Y(i) == C30_Position(i)[2]

\* the node declared i-th is on the else branch of a decision
C30_OnElse(i) == Field(data.activities[i], "branch_side", "center") = "right"

\* the nodes of the else branches are 60 to the right of the others
C30_ElseOffset ==
    C30_Generated =>
        \A i \in C30_Emitted :
            C30_X(i) = IF C30_OnElse(i) THEN ActXCenter + 60 ELSE ActXCenter

\* C30: of any two nodes emitted, the one declared later has a strictly
\* greater y-coordinate, a node declared directly after an end node
\* included; the nodes of an else branch differ from those of a then branch
\* by a fixed horizontal offset only.
C30_TopToBottom ==
    C30_Generated =>
        /\ \A i, j \in C30_Emitted : i < j => C30_Y(i) < C30_Y(j)
        /\ \A i, j \in C30_Emitted :
               (C30_OnElse(i) /\ ~C30_OnElse(j)) => C30_X(i) = C30_X(j) + 60

\* the layout as the generator computes it: a node declared later is never
\* higher, and it is at the height of an earlier one exactly when only end
\* nodes were emitted from that one up to it
C30_NeverHigher ==
    C30_Generated =>
        \A i, j \in C30_Emitted :
            i < j =>
                /\ C30_Y(i) <= C30_Y(j)
                /\ C30_Y(i) = C30_Y(j) <=>
                       \A k \in C30_Emitted :
                           (i <= k /\ k < j) => data.activities[k].type = "end"

\* a node declared directly after an end node was emitted at the height of
\* that end node
C30_AfterEnd ==
    /\ C30_Generated
    /\ \E i \in C30_Emitted :
           /\ i + 1 \in C30_Emitted
           /\ data.activities[i].type = "end"
           /\ data.activities[i + 1].type = "activity"
           /\ C30_OnElse(i + 1)
           /\ C30_Y(i + 1) = C30_Y(i)

---------------------------------------------------------------------------
(* The boxes of the combined fragments of a sequence diagram, under        *)
(* SpecFrag.                                                               *)

\* a sequence diagram was generated from data
C31_Generated ==
    /\ diagram_type = "sequence"
    /\ data # NoData
    /\ mxfile # NoDoc

\* the fragments a box is emitted for, and the boxes, in the order emitted
C31_Drawn ==
    SelectSeq(data.fragments, LAMBDA f : f.start_index < Len(data.messages))
C31_Boxes ==
    SelectSeq(mxfile.root, LAMBDA cell : StartsWith(cell.id, "fragment_"))

\* the y of the message of index j (from 0), and the indices of the messages
C31_MessageY(j) == 180 + 50 * j
C31_Messages == 0..(Len(data.messages) - 1)

\* the vertical range of box holds the y of message j
C31_Inside(box, j) ==
    /\ box.geometry.y <= C31_MessageY(j)
    /\ C31_MessageY(j) <= box.geometry.y + box.geometry.height

\* C31: each box emitted for a combined fragment covers exactly the span of
\* message indices of its sections: its vertical range holds the y of
\* message j if and only if start_index <= j < end_index, when the
\* fragment ends before the last message and when it ends after it.
C31_BoxCoversSpan ==
    C31_Generated =>
        /\ Len(C31_Boxes) = Len(C31_Drawn)
        /\ \A i \in DOMAIN C31_Drawn, j \in C31_Messages :
               C31_Inside(C31_Boxes[i], j)
                   <=> /\ C31_Drawn[i].start_index <= j
                       /\ j < C31_Drawn[i].end_index

\* the boxes as the generator computes them: the range of a box holds the
\* messages from start_index to end_index, that one included
C31_BoxCoversThrough ==
    C31_Generated =>
        /\ Len(C31_Boxes) = Len(C31_Drawn)
        /\ \A i \in DOMAIN C31_Drawn, j \in C31_Messages :
               C31_Inside(C31_Boxes[i], j)
                   <=> /\ C31_Drawn[i].start_index <= j
                       /\ j <= C31_Drawn[i].end_index

\* a fragment that ends before the last message was drawn, and the message
\* that follows it is inside its box
C31_NextInside ==
    /\ C31_Generated
    /\ \E i \in DOMAIN C31_Drawn :
           /\ C31_Drawn[i].end_index \in C31_Messages
           /\ C31_Drawn[i].start_index < C31_Drawn[i].end_index
           /\ C31_Inside(C31_Boxes[i], C31_Drawn[i].end_index)

---------------------------------------------------------------------------
(* The participants drawn and the messages emitted, under SpecEnds.        *)

\* a sequence diagram was generated from data
C32_Generated ==
    /\ diagram_type = "sequence"
    /\ data # NoData
    /\ mxfile # NoDoc

\* the cells of the document whose id starts with prefix, in the order
\* emitted
C32_Cells(prefix) ==
    SelectSeq(mxfile.root, LAMBDA cell : StartsWith(cell.id, prefix))

\* the endpoints of the messages parsed and the aliases declared
C32_Endpoints ==
    UNION {{data.messages[i].source, data.messages[i].target} :
              i \in DOMAIN data.messages}
C32_Aliases == {data.participants[i].alias : i \in DOMAIN data.participants}

\* the places of the messages whose two endpoints are in names, in order
RECURSIVE C32_Between(_, _)
C32_Between(names, n) ==
    IF n = 0 THEN <<>>
    ELSE C32_Between(names, n - 1)
             \o (IF /\ data.messages[n].source \in names
                    /\ data.messages[n].target \in names
                 THEN <<n>> ELSE <<>>)

\* the arrows are those of the messages at places, one each, in order: the
\* arrow of the message at place n is at y = 180 + 50 * (n - 1)
C32_ArrowsOf(places) ==
    LET arrows == C32_Cells("arrow_")
    IN  /\ Len(arrows) = Len(places)
        /\ \A k \in DOMAIN places :
               /\ arrows[k].geometry.sourcePoint.y = 180 + 50 * (places[k] - 1)
               /\ arrows[k].value = data.messages[places[k]].label

\* C32: when a sequence diagram declares no participant the generator
\* infers one participant for each distinct endpoint of a message, each
\* name once, draws one lifeline for each and emits one arrow for every
\* message parsed; when a participant is declared none is inferred and
\* only the messages whose two endpoints are declared aliases are emitted.
C32_InferredOrDeclared ==
    C32_Generated =>
        LET boxes == C32_Cells("elem_")
        IN  IF data.participants = <<>>
            THEN /\ Len(boxes) = Cardinality(C32_Endpoints)
                 /\ {boxes[k].value : k \in DOMAIN boxes} = C32_Endpoints
                 /\ Len(C32_Cells("lifeline_")) = Cardinality(C32_Endpoints)
                 /\ C32_ArrowsOf(C32_Between(C32_Endpoints,
                                             Len(data.messages)))
                 /\ Len(C32_Cells("arrow_")) = Len(data.messages)
            ELSE /\ C32_ArrowsOf(C32_Between(C32_Aliases,
                                             Len(data.messages)))
                 /\ [k \in DOMAIN boxes |-> boxes[k].value]
                        = [k \in DOMAIN data.participants |->
                              data.participants[k].name]
                 /\ Len(C32_Cells("lifeline_")) = Len(data.participants)

\* a diagram with a participant declared was generated: of its three
\* messages the one between declared aliases is emitted, the two with an
\* endpoint that is not declared are not
C32_Witness ==
    /\ C32_Generated
    /\ Len(data.participants) = 1
    /\ Len(data.messages) = 3
    /\ C32_Between(C32_Aliases, 3) = <<2>>
    /\ Len(C32_Cells("arrow_")) = 1
    /\ Len(C32_Cells("lifeline_")) = 1

\* three messages between three endpoints, none declared: three lifelines
\* and three arrows
C32_AllInferred ==
    /\ C32_Generated
    /\ data.participants = <<>>
    /\ Cardinality(C32_Endpoints) = 3
    /\ Len(C32_Cells("lifeline_")) = 3
    /\ Len(C32_Cells("arrow_")) = 3

---------------------------------------------------------------------------
(* The lists of the parsers only grow, under SpecParsers.                  *)

\* the list before is the beginning of the list after
C33_Prefix(before, after) ==
    /\ Len(before) <= Len(after)
    /\ SubSeq(after, 1, Len(before)) = before

\* one step keeps what the parsers have recorded
C33_Keeps ==
    /\ C33_Prefix(actp.activities, actp'.activities)
    /\ C33_Prefix(actp.transitions, actp'.transitions)
    /\ C33_Prefix(seqp.messages, seqp'.messages)
    /\ C33_Prefix(seqp.fragments, seqp'.fragments)

\* C33: while the activity parser processes lines the activities and the
\* transitions only grow at the end, the lists after a line having the
\* lists before it as a prefix, and no node or transition recorded is
\* removed or altered; the same holds of the messages of the sequence
\* parser and of the fragments it has committed.
C33_AppendOnly == [][C33_Keeps]_vars

\* the same, line by line: whatever line is read next
C33_NextLineKeeps ==
    pc = "parsing" =>
        /\ \A line \in ActStartLines \cup ActStopLines \cup ActActivityLines
                  \cup ActIfLines \cup ActElseLines \cup ActEndifLines
                  \cup ActForkLines \cup ActForkAgainLines
                  \cup ActEndForkLines \cup ActOtherLines :
               /\ C33_Prefix(actp.activities, ActStep(actp, line).activities)
               /\ C33_Prefix(actp.transitions,
                             ActStep(actp, line).transitions)
        /\ \A line \in SeqParticipantLines \cup SeqFragmentLines
                  \cup SeqElseLines \cup SeqEndLines \cup SeqMessageLines
                  \cup SeqOtherLines :
               /\ C33_Prefix(seqp.messages, SeqStep(seqp, line).messages)
               /\ C33_Prefix(seqp.fragments, SeqStep(seqp, line).fragments)

\* the two branches of a decision were read: nodes and transitions were
\* recorded before the else and after it
C33_Witness ==
    /\ pc = "parsing"
    /\ diagram_type = "activity"
    /\ read = <<"start", "if (c) then (yes)", ":work;", "else (no)", "stop">>
    /\ Len(actp.activities) = 4
    /\ Len(actp.transitions) = 3

---------------------------------------------------------------------------
(* The model parsed is left as it was by the generators, under Spec.       *)

\* a document was generated from the model in data
C34_Generated ==
    /\ pc \in {"generated", "done"}
    /\ mxfile # NoDoc

\* C34: every generate_* operation leaves the model parsed unchanged:
\* after the generation the entities, the relations, messages or
\* transitions and the fragments of the data are what the parser returned.
C34_ModelUnchanged ==
    C34_Generated =>
        /\ diagram_type \in SupportedTypes
        /\ data = parse(diagram_type, lines).data

\* a sequence diagram with no participant declared was generated: a
\* participant was inferred and drawn, and the model still declares none
C34_Witness ==
    /\ C34_Generated
    /\ diagram_type = "sequence"
    /\ data.messages # <<>>
    /\ data.participants = <<>>
    /\ \E i \in DOMAIN mxfile.root : StartsWith(mxfile.root[i].id, "lifeline_")

---------------------------------------------------------------------------
(* The cursor stack and the decision stack, under SpecAct.                 *)

\* the activity parser is between two lines
C35_Reading ==
    /\ pc = "parsing"
    /\ diagram_type = "activity"
    /\ actp.multiline_activity = None

\* how much longer the two stacks are after line
C35_Cursors(line) ==
    Len(ActStep(actp, line).prev_stack) - Len(actp.prev_stack)
C35_Decisions(line) ==
    Len(ActStep(actp, line).decision_stack) - Len(actp.decision_stack)

\* C35: after every line the cursor stack is not empty and is one longer
\* than the decision stack: 'if' pushes on both, 'endif' pops both, when it
\* creates a merge and when it creates none, the fork lines push on
\* neither; the cursor is always defined.
C35_StacksAligned ==
    /\ diagram_type = "activity" =>
           /\ Len(actp.prev_stack) = Len(actp.decision_stack) + 1
           /\ actp.prev_stack # <<>>
    /\ C35_Reading =>
           /\ C35_Cursors("endif") = C35_Decisions("endif")
           /\ C35_Decisions("endif")
                  = IF actp.decision_stack = <<>> THEN 0 ELSE 0 - 1
           /\ C35_Cursors("if (c) then (yes)") = 1
           /\ C35_Decisions("if (c) then (yes)") = 1
           /\ \A line \in {"fork", "fork again", "end fork", "start", "stop",
                           ":work;", "else (no)"} :
                  /\ C35_Cursors(line) = 0
                  /\ C35_Decisions(line) = 0

\* an endif that created no merge, both branches having ended with a stop,
\* was read: the stacks are as they were before the if
C35_Witness ==
    /\ C35_Reading
    /\ read = <<"start", "if (c) then (yes)", "stop", "else (no)", "stop",
                "endif">>
    /\ NodesOfType(actp.activities, "merge") = {}
    /\ actp.decision_stack = <<>>
    /\ actp.prev_stack = <<"start">>

---------------------------------------------------------------------------
(* The nodes that branch, under SpecAct.                                   *)

\* the transitions of the model that leave the node id
C36_Leaving(id) ==
    {i \in DOMAIN actp.transitions : actp.transitions[i].source = id}

\* the ids of the nodes that are neither a decision nor a fork
C36_Plain ==
    {actp.activities[i].id :
        i \in {j \in DOMAIN actp.activities :
                  actp.activities[j].type \notin {"decision", "fork"}}}

\* C36: in every model the activity parser produces each node that is not
\* a decision or a fork (start, activity, merge, join) is the source of at
\* most one transition; only the decisions and the forks branch.
C36_OnlyDecisionsBranch ==
    diagram_type = "activity" =>
        \A id \in C36_Plain : Cardinality(C36_Leaving(id)) <= 1

\* how many of the lines read are line
C36_Read(line) == Cardinality({i \in DOMAIN read : read[i] = line})

\* the same for the diagrams that begin with their one start line and in
\* which every endif created a merge: there no plain node branches
C36_UnlessCursorRestored ==
    (/\ diagram_type = "activity"
     /\ C36_Read("start") <= 1
     /\ read # <<>> => read[1] = "start"
     /\ C36_Read("endif")
            = Cardinality(NodesOfType(actp.activities, "merge")))
        => \A id \in C36_Plain : Cardinality(C36_Leaving(id)) <= 1

\* an activity was read after an endif that created no merge: the start
\* node is the source of the transition to the decision and of the one to
\* the activity
C36_StartBranches ==
    /\ diagram_type = "activity"
    /\ read = <<"start", "if (c) then (yes)", "endif", ":work;">>
    /\ Cardinality(C36_Leaving("start")) = 2

---------------------------------------------------------------------------
(* The ends of the transitions are nodes, under SpecAct.                   *)

\* the ids of the nodes of the model
C37_Ids == {actp.activities[i].id : i \in DOMAIN actp.activities}

\* C37: in every model the activity parser produces the source and the
\* target of every transition are ids of nodes of the activities list, for
\* the inputs without a 'start' line as well.
C37_EndsAreNodes ==
    diagram_type = "activity" =>
        \A i \in DOMAIN actp.transitions :
            /\ actp.transitions[i].source \in C37_Ids
            /\ actp.transitions[i].target \in C37_Ids

\* the targets are nodes, and so are the sources but for 'start', which is
\* the cursor from the beginning on
C37_EndsAreNodesOrStart ==
    diagram_type = "activity" =>
        \A i \in DOMAIN actp.transitions :
            /\ actp.transitions[i].source \in C37_Ids \cup {"start"}
            /\ actp.transitions[i].target \in C37_Ids

\* the same for the diagrams whose first line is the start line
C37_StartFirst ==
    (diagram_type = "activity" /\ read # <<>> /\ read[1] = "start")
        => \A i \in DOMAIN actp.transitions :
               /\ actp.transitions[i].source \in C37_Ids
               /\ actp.transitions[i].target \in C37_Ids

\* an activity was read and no start line: its transition comes from a
\* node that is not in the model
C37_NoStartNode ==
    /\ diagram_type = "activity"
    /\ read = <<":work;">>
    /\ actp.transitions # <<>>
    /\ actp.transitions[1].source \notin C37_Ids

---------------------------------------------------------------------------
(* The endif of a decision without an else, under SpecAct.                 *)

\* the parser is between two lines, in the first branch of a decision that
\* has no else, and the branch is not empty and live: its cursor is a node
\* that is not the decision
C38_InThenBranch ==
    /\ pc = "parsing"
    /\ diagram_type = "activity"
    /\ actp.multiline_activity = None
    /\ actp.decision_stack # <<>>
    /\ ~Last(actp.decision_stack).in_else
    /\ Last(actp.prev_stack) \notin {None, Last(actp.decision_stack).id}

\* the sources of the transitions that an endif read now records into the
\* node it creates
C38_IntoMerge ==
    LET st == ActStep(actp, "endif")
    IN  {st.transitions[i].source :
            i \in {j \in DOMAIN st.transitions :
                      /\ j > Len(actp.transitions)
                      /\ st.transitions[j].target = Last(st.activities).id}}

\* an endif read now creates one node, a merge
C38_CreatesMerge ==
    LET st == ActStep(actp, "endif")
    IN  /\ Len(st.activities) = Len(actp.activities) + 1
        /\ Last(st.activities).type = "merge"

\* C38: at the endif of an 'if (c) then (y) .. endif' without an else line
\* whose then branch is not empty and live, the merge node created has a
\* transition into it from the decision node, the false path, besides the
\* one from the end of the then branch.
C38_FalsePath ==
    C38_InThenBranch =>
        /\ C38_CreatesMerge
        /\ C38_IntoMerge
               = {Last(actp.decision_stack).id, Last(actp.prev_stack)}

\* what the parser does: the merge is reached from the end of the then
\* branch only
C38_ThenPathOnly ==
    C38_InThenBranch =>
        /\ C38_CreatesMerge
        /\ C38_IntoMerge = {Last(actp.prev_stack)}
        /\ Len(ActStep(actp, "endif").transitions)
               = Len(actp.transitions) + 1

\* such an endif was read: the decision has one transition out of it, to
\* the then branch, and none to the merge
C38_NoBypass ==
    /\ diagram_type = "activity"
    /\ read = <<"start", "if (c) then (yes)", ":work;", "endif">>
    /\ Last(actp.activities).type = "merge"
    /\ Cardinality({i \in DOMAIN actp.transitions :
                       actp.transitions[i].source = "dec_0"}) = 1

---------------------------------------------------------------------------
(* The indices of the fragments, under SpecFrag.                           *)

\* the lines that open a fragment
C39_Openers == {"alt c", "loop n"}

\* the places, among the lines q from the k-th on, of the opening line and
\* of the 'end' line of each fragment closed, in the order of the 'end'
\* lines; open holds the places of the openers not closed yet
RECURSIVE C39_Scan(_, _, _, _)
C39_Scan(q, k, open, closed) ==
    IF k > Len(q) THEN closed
    ELSE IF q[k] \in C39_Openers
    THEN C39_Scan(q, k + 1, Append(open, k), closed)
    ELSE IF q[k] = "end" /\ open # <<>>
    THEN C39_Scan(q, k + 1, Pop(open),
                  Append(closed, [opened |-> Last(open), ended |-> k]))
    ELSE C39_Scan(q, k + 1, open, closed)

C39_Places == C39_Scan(read, 1, <<>>, <<>>)

\* the fragment closed k-th was opened and closed inside the one closed l-th
C39_Inside(k, l) ==
    /\ C39_Places[l].opened < C39_Places[k].opened
    /\ C39_Places[k].ended < C39_Places[l].ended

\* the indices of one committed fragment are in order
C39_InOrder(f, total) ==
    /\ f.sections # <<>>
    /\ f.start_index = f.sections[1].start_index
    /\ \A i, j \in DOMAIN f.sections :
           i <= j => f.sections[i].start_index <= f.sections[j].start_index
    /\ \A i \in DOMAIN f.sections :
           /\ f.start_index <= f.sections[i].start_index
           /\ f.sections[i].start_index <= f.end_index
    /\ f.start_index <= f.end_index
    /\ f.end_index <= total

\* C39: after every line the running message index is the number of the
\* messages recorded; of every committed fragment start_index is the start
\* of the first section, the starts of the sections never decrease, and
\* start_index <= every section start <= end_index <= the number of
\* messages; a fragment opened and closed inside another has its range of
\* indices within the range of the other.
C39_FragmentIndices ==
    diagram_type = "sequence" =>
        /\ \A k \in DOMAIN seqp.fragments :
               C39_InOrder(seqp.fragments[k], Len(seqp.messages))
        /\ seqp.message_index = Len(seqp.messages)
        /\ Len(C39_Places) = Len(seqp.fragments)
        /\ \A k, l \in DOMAIN seqp.fragments :
               C39_Inside(k, l) =>
                   /\ seqp.fragments[l].start_index
                          <= seqp.fragments[k].start_index
                   /\ seqp.fragments[k].end_index
                          <= seqp.fragments[l].end_index

\* a fragment with a message was closed inside another that has an else
\* section and a message of its own before the inner one
C39_Witness ==
    /\ diagram_type = "sequence"
    /\ pc = "parsing"
    /\ read = <<"alt c", "A -> B", "else d", "loop n", "A -> B", "end", "end">>
    /\ Len(seqp.fragments) = 2
    /\ C39_Inside(1, 2)
    /\ seqp.fragments[1].start_index = 1
    /\ seqp.fragments[2].sections[2].start_index = 1
    /\ seqp.fragments[2].end_index = 2

----------------------------------------------------------------------------
(* The ids of the cells of one generator, under SpecGen.                   *)

\* the ids of the cells of a document after its two root cells
C40_Emitted(doc) ==
    IF doc = NoDoc THEN <<>>
    ELSE [i \in 1..(Len(doc.root) - 2) |-> doc.root[i + 2].id]

\* the value the counter had before the first cell of the last document
C40_Base == gen.cell_id - Len(C40_Emitted(mxfile))

\* the id is a prefix followed by the number n
C40_Numbered(id, n) == EndsWith(id, "_" \o ToString(n))

\* the cells of the last document took the successive values of the counter,
\* which is now one past the last value taken
C40_TakesAndIncrements ==
    /\ gen.cell_id >= 2
    /\ C40_Base >= 2
    /\ \A k \in DOMAIN C40_Emitted(mxfile) :
           C40_Numbered(C40_Emitted(mxfile)[k], C40_Base + k - 1)

\* the cells of the document generated before took values below those
C40_EarlierBelow ==
    \A k \in DOMAIN C40_Emitted(first_doc) :
        \E n \in 2..(C40_Base - 1) : C40_Numbered(C40_Emitted(first_doc)[k], n)

\* the ids of both documents are pairwise distinct and none is a root id
C40_PairwiseDistinct ==
    LET ids == C40_Emitted(first_doc) \o C40_Emitted(mxfile)
    IN  /\ \A i, j \in DOMAIN ids : i # j => ids[i] # ids[j]
        /\ \A i \in DOMAIN ids : ids[i] \notin {"0", "1"}
        /\ mxfile # NoDoc =>
               /\ mxfile.root[1].id = "0"
               /\ mxfile.root[2].id = "1"

\* a step of the generator does not decrease the counter
C40_NeverDecreases == gen'.cell_id >= gen.cell_id

\* C40: the ids of the cells emitted by one generator, over any sequence of
\* generate_* and add_* calls, are pairwise distinct and differ from the root
\* ids "0" and "1"; each cell takes the current value of the counter, which
\* is then incremented, and the counter never decreases.
C40_DistinctIds ==
    /\ [](C40_TakesAndIncrements /\ C40_EarlierBelow /\ C40_PairwiseDistinct)
    /\ [][C40_NeverDecreases]_vars

\* a second document of the same generator, with a cell added by add_*
C40_Witness ==
    /\ first_doc # NoDoc
    /\ Len(C40_Emitted(first_doc)) >= 3
    /\ Len(C40_Emitted(mxfile)) >= 4
    /\ GenAddedCells # {}
    /\ gen.cell_id >= 10

===========================================================================
